---- MODULE Spec2Model ----
(***************************************************************************)
(* Model of the core of jelmd/node_exporter:                               *)
(*   - the CPU counter reconciliation cache of collector/cpu_linux.go      *)
(*     (updateStat / updateCPUStats, guarded by cpuStatsMutex);            *)
(*   - the NFS client and server stream parsers and their record decoders  *)
(*     (procfs/nfs), and the exposition of the versioned call tables by    *)
(*     the nfs and nfsd collectors;                                        *)
(*   - the pressure-stall parser parsePSIStats (procfs);                   *)
(*   - the Update of the nfsd collector with its skip list and its scan of *)
(*     pool_stats (updateNFSdThreadStats);                                 *)
(*   - the Update of the pressure collector.                               *)
(* CPU times are float64 seconds in the source; the model keeps them as    *)
(* whole numbers of seconds, so jumpBackSeconds = 3.0 is the integer 3.    *)
(* Go slices are 0-based, TLA+ sequences 1-based: CPU i of the source is   *)
(* entry i+1 of the model's tables, value v[k] is v[k+1].                  *)
(***************************************************************************)
EXTENDS Integers, Sequences, FiniteSets, TLC

\* ------------------------------------------------------------------------
\* Bounds of the model
\* ------------------------------------------------------------------------
MaxCPUs == 2

MaxIdle == 3

MaxVal == 1

NumPasses == 2

MaxLines == 2

MaxPayload == 78

MaxPsiLines == 2

MaxPoolLines == 2

\* ------------------------------------------------------------------------
\* Program constants
\* ------------------------------------------------------------------------
jumpBackSeconds == 3

VARIABLES
    enableCPUGuest,  \* flag collector.cpu.guest, fixed for the process
    cpuStats,        \* c.cpuStats: the retained per-CPU table
    cpuStatsMutex,   \* c.cpuStatsMutex: TRUE when locked
    pc,              \* position of each collection pass in updateStat
    newStats,        \* stats.CPU read by each pass (<<>> when it has none)
    idx,             \* loop index of each pass (merge loop or exposition loop)
    prevStats,       \* history: the table as the pass found it when it locked for the merge
    sent,            \* the per-CPU records each pass has put on the channel in this cycle
    kernel,          \* the per-CPU counters of the kernel, as fs.Stat() would read them now
    lastIdle,        \* history: the idle value of each CPU in the snapshot merged last
    mergedTable,     \* history: the table as each pass left it when it unlocked after its merge
    lastMerged,      \* history: the merge that unlocked last: its pass (0: none yet) and its table
    side,            \* which stream parser runs: "client", "server" or "none"
    openErr,         \* the error of os.Open on the source ("" when it opens)
    scanErr,         \* TRUE when the reader fails after the lines of input (scanner.Err() # nil)
    input,           \* the source being parsed: a sequence of lines
    pos,             \* the line the scanner delivers next
    stats,           \* the snapshot under construction
    ret,             \* what the parser returned: a snapshot (or none) and an error
    parsePc,         \* "scan" while the scanner loop runs, "done" after the return
    trace,           \* history: the error ("" for none) of each line processed so far
    dec,             \* the last decoder call: function, values and result
    ch,              \* the metrics an NFS collector has put on the channel
    updatePc,        \* "idle" before the exposition of a call table, then "done" or "panic"
    psiInput,        \* the pressure file being parsed: a sequence of lines
    psiPos,          \* the line the scanner of parsePSIStats delivers next
    psiStats,        \* psiStats of parsePSIStats
    psiRet,          \* what parsePSIStats returned: a PSIStats (or none yet) and an error
    psiPc,           \* "idle", "scan" while the scanner loop runs, "done" after the return
    skip,            \* skipV2, skipV3, skipV4, skipV4ops, skipThreads of the nfsd collector
    poolFile,        \* /proc/fs/nfsd/pool_stats: <<>> when it cannot be opened, else <<its lines>>
    poolPos,         \* the line the scanner of updateNFSdThreadStats delivers next
    poolCh,          \* the samples updateNFSdThreadStats has put on the channel
    poolPc,          \* "idle", "open", "scan", then "done" (returned) or "panic"
    pressureFiles,   \* /proc/pressure/<resource>: a read error or the lines of the file
    pressureIdx,     \* the resource the loop of the pressure collector's Update handles next
    pressureCh,      \* the samples the pressure collector has put on the channel
    pressureRet      \* "idle", "loop" while Update runs, then what it returned

cpuVars == <<enableCPUGuest, cpuStats, cpuStatsMutex, pc, newStats, idx, prevStats, sent,
             kernel, lastIdle, mergedTable, lastMerged>>

nfsVars == <<side, openErr, scanErr, input, pos, stats, ret, parsePc, trace, dec, ch, updatePc>>

psiVars == <<psiInput, psiPos, psiStats, psiRet, psiPc>>

poolVars == <<skip, poolFile, poolPos, poolCh, poolPc>>

pressureVars == <<pressureFiles, pressureIdx, pressureCh, pressureRet>>

vars == <<cpuVars, nfsVars, psiVars, poolVars, pressureVars>>

\* ------------------------------------------------------------------------
\* procfs.CPUStat and the merge of updateCPUStats
\* ------------------------------------------------------------------------
PlainFields == {"User", "Nice", "System", "Idle", "Iowait", "IRQ", "SoftIRQ", "Steal"}

GuestFields == {"Guest", "GuestNice"}

CPUStatFields == PlainFields \cup GuestFields

\* procfs.CPUStat{}: the zero record
ZeroCPUStat == [f \in CPUStatFields |-> 0]

\* The reset test of one CPU: idle jumped backwards by at least jumpBackSeconds.
IdleJumpedBackStrict(retained, n) == (retained.Idle - n.Idle) > jumpBackSeconds

IdleJumpedBack(retained, n) == (retained.Idle - n.Idle) >= jumpBackSeconds

\* One "if n.X >= c.cpuStats[i].X { c.cpuStats[i].X = n.X } else { log }" block.
MergeFieldTakeNew(old, new) == new

MergeField(old, new) == IF new >= old THEN new ELSE old

\* The body of the merge loop for one CPU: reset test, then the field blocks;
\* the two guest blocks run only under *enableCPUGuest.
MergeCPU(retained, n, guest) ==
    LET r == IF IdleJumpedBack(retained, n) THEN ZeroCPUStat ELSE retained
    IN  [f \in CPUStatFields |->
            IF f \in GuestFields /\ ~guest THEN r[f] ELSE MergeField(r[f], n[f])]

\* "Reset the cache if the list of CPUs has changed."
ResetCacheGrowOnly(table, new) ==
    IF Len(table) < Len(new)
    THEN [i \in 1..Len(new) |-> ZeroCPUStat]
    ELSE table

ResetCache(table, new) ==
    IF Len(table) # Len(new)
    THEN [i \in 1..Len(new) |-> ZeroCPUStat]
    ELSE table

\* ------------------------------------------------------------------------
\* Inputs: the snapshots /proc/stat can deliver within the bounds
\* ------------------------------------------------------------------------
\* One CPU line: the idle time and three groups of counters, two chosen
\* freely and one moving against the first, so that one merge sees rising
\* and falling fields side by side.
MkCPUStat(i, u, w) ==
    [User |-> u, Nice |-> w, System |-> MaxVal - u, Idle |-> i,
     Iowait |-> w, IRQ |-> u, SoftIRQ |-> MaxVal - u, Steal |-> w,
     Guest |-> u, GuestNice |-> MaxVal - u]

\* A snapshot of n CPUs; CPU k is shifted by k-1 so that the CPUs differ.
MkSnapshot(n, i, u, w) ==
    [k \in 1..n |-> MkCPUStat((i + (k - 1)) % (MaxIdle + 1),
                              (u + (k - 1)) % (MaxVal + 1),
                              (w + 2 * (k - 1)) % (MaxVal + 1))]

Snapshots ==
    { MkSnapshot(n, i, u, w) : n \in 1..MaxCPUs, i \in 0..MaxIdle, u \in 0..MaxVal, w \in 0..MaxVal }

ConcSnapshots == { MkSnapshot(n, i, 0, MaxVal) : n \in 1..MaxCPUs, i \in {0, MaxIdle} }

Passes == 1..NumPasses

\* ------------------------------------------------------------------------
\* The mutex
\* ------------------------------------------------------------------------
\* sync.Mutex.Lock() returns only when the mutex is free.
LockNoWait(p, from, to) ==
    /\ pc[p] = from
    /\ cpuStatsMutex' = TRUE
    /\ pc' = [pc EXCEPT ![p] = to]

Lock(p, from, to) ==
    /\ pc[p] = from
    /\ cpuStatsMutex = FALSE
    /\ cpuStatsMutex' = TRUE
    /\ pc' = [pc EXCEPT ![p] = to]

\* ------------------------------------------------------------------------
\* One collection pass: updateStat, calling updateCPUStats
\* ------------------------------------------------------------------------
\* stats, err := c.fs.Stat() succeeds and yields a snapshot
Stat(p, S) ==
    /\ pc[p] = "idle"
    /\ \E s \in S : newStats' = [newStats EXCEPT ![p] = s]
    /\ pc' = [pc EXCEPT ![p] = "mergeLock"]
    /\ sent' = [sent EXCEPT ![p] = <<>>]
    /\ UNCHANGED <<kernel, lastIdle, mergedTable, lastMerged, enableCPUGuest, cpuStats, cpuStatsMutex, idx, prevStats>>

\* stats, err := c.fs.Stat() fails: updateStat returns err, nothing is merged or sent
StatErr(p) ==
    /\ pc[p] = "idle"
    /\ sent' = [sent EXCEPT ![p] = <<>>]
    /\ UNCHANGED <<kernel, lastIdle, mergedTable, lastMerged, enableCPUGuest, cpuStats, cpuStatsMutex, pc, newStats, idx, prevStats>>

\* updateCPUStats: c.cpuStatsMutex.Lock(), then the cardinality test
MergeLock(p) ==
    /\ Lock(p, "mergeLock", "merge")
    /\ prevStats' = [prevStats EXCEPT ![p] = cpuStats]
    /\ cpuStats' = ResetCache(cpuStats, newStats[p])
    /\ idx' = [idx EXCEPT ![p] = 1]
    /\ UNCHANGED <<kernel, lastIdle, mergedTable, lastMerged, enableCPUGuest, newStats, sent>>

\* updateCPUStats: one iteration of "for i, n := range newStats"
MergeStep(p) ==
    /\ pc[p] = "merge"
    /\ idx[p] <= Len(newStats[p])
    /\ cpuStats' = [cpuStats EXCEPT ![idx[p]] =
                        MergeCPU(cpuStats[idx[p]], newStats[p][idx[p]], enableCPUGuest)]
    /\ idx' = [idx EXCEPT ![p] = idx[p] + 1]
    /\ UNCHANGED <<kernel, lastIdle, mergedTable, lastMerged, enableCPUGuest, cpuStatsMutex, pc, newStats, prevStats, sent>>

\* updateCPUStats: the loop is over; the function is about to return
MergeDone(p) ==
    /\ pc[p] = "merge"
    /\ idx[p] > Len(newStats[p])
    /\ pc' = [pc EXCEPT ![p] = "merged"]
    /\ UNCHANGED <<kernel, lastIdle, mergedTable, lastMerged, enableCPUGuest, cpuStats, cpuStatsMutex, newStats, idx, prevStats, sent>>

\* updateCPUStats: the deferred c.cpuStatsMutex.Unlock()
MergeUnlock(p) ==
    /\ pc[p] = "merged"
    /\ cpuStatsMutex' = FALSE
    /\ pc' = [pc EXCEPT ![p] = "exposeLock"]
    /\ newStats' = [newStats EXCEPT ![p] = <<>>]
    /\ prevStats' = [prevStats EXCEPT ![p] = <<>>]
    /\ idx' = [idx EXCEPT ![p] = 0]
    /\ lastIdle' = [i \in 1..Len(newStats[p]) |-> newStats[p][i].Idle]
    /\ mergedTable' = [mergedTable EXCEPT ![p] = cpuStats]
    /\ lastMerged' = [by |-> p, table |-> cpuStats]
    /\ UNCHANGED <<kernel, enableCPUGuest, cpuStats, sent>>

\* updateStat: "Acquire a lock to read the stats."
ExposeLock(p) ==
    /\ Lock(p, "exposeLock", "expose")
    /\ idx' = [idx EXCEPT ![p] = 1]
    /\ UNCHANGED <<kernel, lastIdle, mergedTable, lastMerged, enableCPUGuest, cpuStats, newStats, prevStats, sent>>

\* What one iteration of the exposition loop sends for a CPU: the eight
\* node_cpu_seconds_total samples and, under *enableCPUGuest, the two guest ones.
Samples(cpuStat, guest) ==
    [f \in (IF guest THEN CPUStatFields ELSE PlainFields) |-> cpuStat[f]]

\* updateStat: one iteration of "for cpuID, cpuStat := range c.cpuStats"
ExposeStep(p) ==
    /\ pc[p] = "expose"
    /\ idx[p] <= Len(cpuStats)
    /\ sent' = [sent EXCEPT ![p] = Append(sent[p], Samples(cpuStats[idx[p]], enableCPUGuest))]
    /\ idx' = [idx EXCEPT ![p] = idx[p] + 1]
    /\ UNCHANGED <<kernel, lastIdle, mergedTable, lastMerged, enableCPUGuest, cpuStats, cpuStatsMutex, pc, newStats, prevStats>>

\* updateStat: return nil, running the deferred c.cpuStatsMutex.Unlock()
ExposeNoUnlock(p) ==
    /\ pc[p] = "expose"
    /\ idx[p] > Len(cpuStats)
    /\ pc' = [pc EXCEPT ![p] = "idle"]
    /\ idx' = [idx EXCEPT ![p] = 0]
    /\ mergedTable' = [mergedTable EXCEPT ![p] = <<>>]
    /\ UNCHANGED <<kernel, lastIdle, lastMerged, enableCPUGuest, cpuStats, cpuStatsMutex,
                   newStats, prevStats, sent>>

ExposeUnlock(p) ==
    /\ pc[p] = "expose"
    /\ idx[p] > Len(cpuStats)
    /\ cpuStatsMutex' = FALSE
    /\ pc' = [pc EXCEPT ![p] = "idle"]
    /\ idx' = [idx EXCEPT ![p] = 0]
    /\ mergedTable' = [mergedTable EXCEPT ![p] = <<>>]
    /\ UNCHANGED <<kernel, lastIdle, lastMerged, enableCPUGuest, cpuStats, newStats, prevStats, sent>>

\* NewCPUCollector: an empty cache, a free mutex, no pass running
CPUInit ==
    /\ enableCPUGuest \in BOOLEAN
    /\ cpuStats = <<>>
    /\ cpuStatsMutex = FALSE
    /\ pc = [p \in Passes |-> "idle"]
    /\ newStats = [p \in Passes |-> <<>>]
    /\ idx = [p \in Passes |-> 0]
    /\ prevStats = [p \in Passes |-> <<>>]
    /\ sent = [p \in Passes |-> <<>>]
    /\ kernel = <<>>
    /\ lastIdle = <<>>
    /\ mergedTable = [p \in Passes |-> <<>>]
    /\ lastMerged = [by |-> 0, table |-> <<>>]

\* The counters of one CPU after i seconds of idle time: the other
\* counters rise with it as far as the bounds allow.
KernelCPU(i) == MkCPUStat(i, 0, IF i < MaxVal THEN i ELSE MaxVal)

\* The kernel accounts more time to every CPU: no counter of /proc/stat falls.
KernelAdvance ==
    /\ \E d \in 1..MaxIdle :
          /\ \A k \in 1..Len(kernel) : kernel[k].Idle + d <= MaxIdle
          /\ kernel' = [k \in 1..Len(kernel) |-> KernelCPU(kernel[k].Idle + d)]
    /\ UNCHANGED <<enableCPUGuest, cpuStats, cpuStatsMutex, pc, newStats, idx, prevStats, sent,
                   lastIdle, mergedTable, lastMerged>>

PassStep(p, S) ==
    \/ Stat(p, S)
    \/ StatErr(p)
    \/ MergeLock(p)
    \/ MergeStep(p)
    \/ MergeDone(p)
    \/ MergeUnlock(p)
    \/ ExposeLock(p)
    \/ ExposeStep(p)
    \/ ExposeUnlock(p)

\* ------------------------------------------------------------------------
\* procfs/nfs: the record types, in declaration order
\* ------------------------------------------------------------------------
Range(s) == { s[k] : k \in 1..Len(s) }

ReplyCacheFields ==
    <<"Hits", "Misses", "NoCache">>

FileHandlesFields ==
    <<"Stale", "TotalLookups", "AnonLookups", "DirNoCache", "NoDirNoCache">>

InputOutputFields ==
    <<"Read", "Write">>

ThreadsFields ==
    <<"Threads", "FullCnt">>

NetworkFields ==
    <<"NetCount", "UDPCount", "TCPCount", "TCPConnect">>

RpcServerFields ==
    <<"Good", "Bad", "BadFmt", "BadAuth", "BadClnt">>

RpcClientFields ==
    <<"RPCCount", "Retransmissions", "AuthRefreshes">>

V2statsFields ==
    <<"Fields", "Null", "GetAttr", "SetAttr", "Root", "Lookup", "ReadLink",
      "Read", "WriteCache", "Write", "Create", "Remove", "Rename", "Link",
      "SymLink", "MkDir", "RmDir", "ReadDir", "StatFs">>

V3statsFields ==
    <<"Fields", "Null", "GetAttr", "SetAttr", "Lookup", "Access", "ReadLink",
      "Read", "Write", "Create", "MkDir", "SymLink", "MkNod", "Remove",
      "RmDir", "Rename", "Link", "ReadDir", "ReadDirPlus", "FsStat",
      "FsInfo", "PathConf", "Commit">>

V4statsClientFields ==
    <<"Fields", "Null", "Read", "Write", "Commit", "Open", "OpenConfirm",
      "OpenNoAttr", "OpenDowngrade", "Close", "SetAttr", "FsInfo", "Renew",
      "SetClientId", "SetClientIdConfirm", "Lock", "LockT", "LockU",
      "Access", "GetAttr", "Lookup", "LookupRoot", "Remove", "Rename",
      "Link", "Symlink", "Create", "Pathconf", "StatFs", "ReadLink",
      "ReadDir", "ServerCaps", "DelegReturn", "GetACL", "SetACL",
      "FsLocations", "ReleaseLockOwner", "SecInfo", "FsIdPresent",
      "ExchangeId", "CreateSession", "DestroySession", "Sequence",
      "GetLeaseTime", "ReclaimComplete", "LayoutGet", "GetDeviceInfo",
      "LayoutCommit", "LayoutReturn", "SecInfoNoName", "TestStateId",
      "FreeStateId", "GetDeviceList", "BindConnToSession", "DestroyClientId",
      "Seek", "Allocate", "DeAllocate", "LayoutStats", "Clone", "Copy",
      "OffloadCancel", "LookupP", "LayoutError", "CopyNotify", "GetXattr",
      "SetXattr", "ListXattrs", "RemoveXattr", "ReadPlus">>

V4statsServerFields ==
    <<"Fields", "Null", "Compound">>

V4opsFields ==
    <<"Fields", "Unused0", "Unused1", "Unused2", "Access", "Close", "Commit",
      "Create", "DelegPurge", "DelegReturn", "GetAttr", "GetFH", "Link",
      "Lock", "LockT", "LockU", "Lookup", "LookupP", "Nverify", "Open",
      "OpenAttr", "OpenConfirm", "OpenDowngrade", "PutFH", "PutPubFH",
      "PutRootFH", "Read", "ReadDir", "ReadLink", "Remove", "Rename",
      "Renew", "RestoreFH", "SaveFH", "SecInfo", "SetAttr", "SetClientId",
      "SetClientIdConfirm", "Verify", "Write", "ReleaseLockOwner",
      "BackChannelCtl", "BindConnToSession", "ExchangeId", "CreateSession",
      "DestroySession", "FreeStateId", "GetDirDelegation", "GetDeviceInfo",
      "GetDeviceList", "LayoutCommit", "LayoutGet", "LayoutReturn",
      "SecInfoNoName", "Sequence", "SetSSV", "TestStateId", "WantDelegation",
      "DestroyClientId", "ReclaimComplete", "Allocate", "Copy", "CopyNotify",
      "DeAllocate", "IoAdvise", "LayoutError", "LayoutStats",
      "OffloadCancel", "OffloadStatus", "ReadPlus", "Seek", "WriteSame",
      "Clone", "GetXattr", "SetXattr", "ListXattrs", "RemoveXattr">>

\* The zero value of a record type.
ZeroRecord(names) == [n \in Range(names) |-> 0]

LAST_NFS4_CLNT_OP == 68

LAST_NFS4_OP == 75

\* ProcNetRpcNfsStats{}
ZeroNfsStats ==
    [RpcClient |-> ZeroRecord(RpcClientFields), V2stats |-> ZeroRecord(V2statsFields),
     V3stats |-> ZeroRecord(V3statsFields), V4statsClient |-> ZeroRecord(V4statsClientFields)]

\* ProcNetRpcNfsdStats{}
ZeroNfsdStats ==
    [ReplyCache |-> ZeroRecord(ReplyCacheFields), FileHandles |-> ZeroRecord(FileHandlesFields),
     InputOutput |-> ZeroRecord(InputOutputFields), Threads |-> ZeroRecord(ThreadsFields),
     Network |-> ZeroRecord(NetworkFields), RpcServer |-> ZeroRecord(RpcServerFields),
     V2stats |-> ZeroRecord(V2statsFields), V3stats |-> ZeroRecord(V3statsFields),
     V4statsServer |-> ZeroRecord(V4statsServerFields), V4ops |-> ZeroRecord(V4opsFields)]

\* ------------------------------------------------------------------------
\* The record decoders.  A decoder returns the record and an error; err is
\* "" for nil.  Indexing a slice beyond its length panics in Go.
\* ------------------------------------------------------------------------
DecodeError(names) == [err |-> "decode", rec |-> ZeroRecord(names)]

DecodePanic(names) == [err |-> "panic", rec |-> ZeroRecord(names)]

Decoded(r) == [err |-> "", rec |-> r]

parseReplyCacheAtLeast(v) ==
    IF Len(v) < 3
    THEN DecodeError(ReplyCacheFields)
    ELSE Decoded([Hits |-> v[1], Misses |-> v[2], NoCache |-> v[3]])

parseReplyCache(v) ==
    IF Len(v) # 3
    THEN DecodeError(ReplyCacheFields)
    ELSE Decoded(
          [Hits |-> v[1], Misses |-> v[2], NoCache |-> v[3]])

parseInputOutput(v) ==
    IF Len(v) # 2
    THEN DecodeError(InputOutputFields)
    ELSE Decoded(
          [Read |-> v[1], Write |-> v[2]])

parseNetwork(v) ==
    IF Len(v) # 4
    THEN DecodeError(NetworkFields)
    ELSE Decoded(
          [NetCount |-> v[1], UDPCount |-> v[2], TCPCount |-> v[3],
           TCPConnect |-> v[4]])

parseRpcServer(v) ==
    IF Len(v) # 5
    THEN DecodeError(RpcServerFields)
    ELSE Decoded(
          [Good |-> v[1], Bad |-> v[2], BadFmt |-> v[3], BadAuth |-> v[4],
           BadClnt |-> v[5]])

parseRpcClient(v) ==
    IF Len(v) # 3
    THEN DecodeError(RpcClientFields)
    ELSE Decoded(
          [RPCCount |-> v[1], Retransmissions |-> v[2],
           AuthRefreshes |-> v[3]])

\* parseV2stats: the test "values := int(v[0]); if ... { return V2stats{}, error }"
V2statsInvalidNoMinimum(v) == (Len(v) - 1) # v[1]

V2statsInvalid(v) == (Len(v) - 1) # v[1] \/ v[1] < 18

parseV2stats(v) ==
    IF Len(v) = 0
    THEN DecodePanic(V2statsFields)
    ELSE IF V2statsInvalid(v)
    THEN DecodeError(V2statsFields)
    ELSE IF Len(v) < 19
    THEN DecodePanic(V2statsFields)
    ELSE Decoded(
          [Fields |-> v[1], Null |-> v[2], GetAttr |-> v[3],
           SetAttr |-> v[4], Root |-> v[5], Lookup |-> v[6],
           ReadLink |-> v[7], Read |-> v[8], WriteCache |-> v[9],
           Write |-> v[10], Create |-> v[11], Remove |-> v[12],
           Rename |-> v[13], Link |-> v[14], SymLink |-> v[15],
           MkDir |-> v[16], RmDir |-> v[17], ReadDir |-> v[18],
           StatFs |-> v[19]])

\* parseV3stats: the test "values := int(v[0]); if ... { return V3stats{}, error }"
V3statsInvalid(v) == (Len(v) - 1) # v[1] \/ v[1] < 22

parseV3stats(v) ==
    IF Len(v) = 0
    THEN DecodePanic(V3statsFields)
    ELSE IF V3statsInvalid(v)
    THEN DecodeError(V3statsFields)
    ELSE IF Len(v) < 23
    THEN DecodePanic(V3statsFields)
    ELSE Decoded(
          [Fields |-> v[1], Null |-> v[2], GetAttr |-> v[3],
           SetAttr |-> v[4], Lookup |-> v[5], Access |-> v[6],
           ReadLink |-> v[7], Read |-> v[8], Write |-> v[9],
           Create |-> v[10], MkDir |-> v[11], SymLink |-> v[12],
           MkNod |-> v[13], Remove |-> v[14], RmDir |-> v[15],
           Rename |-> v[16], Link |-> v[17], ReadDir |-> v[18],
           ReadDirPlus |-> v[19], FsStat |-> v[20], FsInfo |-> v[21],
           PathConf |-> v[22], Commit |-> v[23]])

\* parseV4statsClient: the test "values := int(v[0]); if ... { return V4statsClient{}, error }"
V4statsClientInvalidMin38(v) == Len(v) < 69 \/ v[1] < 38

V4statsClientInvalid(v) == Len(v) <= 69 \/ v[1] < 36

parseV4statsClient(v) ==
    IF Len(v) = 0
    THEN DecodePanic(V4statsClientFields)
    ELSE IF V4statsClientInvalid(v)
    THEN DecodeError(V4statsClientFields)
    ELSE IF Len(v) < 70
    THEN DecodePanic(V4statsClientFields)
    ELSE Decoded(
          [Fields |-> v[1], Null |-> v[2], Read |-> v[3], Write |-> v[4],
           Commit |-> v[5], Open |-> v[6], OpenConfirm |-> v[7],
           OpenNoAttr |-> v[8], OpenDowngrade |-> v[9], Close |-> v[10],
           SetAttr |-> v[11], FsInfo |-> v[12], Renew |-> v[13],
           SetClientId |-> v[14], SetClientIdConfirm |-> v[15],
           Lock |-> v[16], LockT |-> v[17], LockU |-> v[18],
           Access |-> v[19], GetAttr |-> v[20], Lookup |-> v[21],
           LookupRoot |-> v[22], Remove |-> v[23], Rename |-> v[24],
           Link |-> v[25], Symlink |-> v[26], Create |-> v[27],
           Pathconf |-> v[28], StatFs |-> v[29], ReadLink |-> v[30],
           ReadDir |-> v[31], ServerCaps |-> v[32], DelegReturn |-> v[33],
           GetACL |-> v[34], SetACL |-> v[35], FsLocations |-> v[36],
           ReleaseLockOwner |-> v[37], SecInfo |-> v[38],
           FsIdPresent |-> v[39], ExchangeId |-> v[40],
           CreateSession |-> v[41], DestroySession |-> v[42],
           Sequence |-> v[43], GetLeaseTime |-> v[44],
           ReclaimComplete |-> v[45], LayoutGet |-> v[46],
           GetDeviceInfo |-> v[47], LayoutCommit |-> v[48],
           LayoutReturn |-> v[49], SecInfoNoName |-> v[50],
           TestStateId |-> v[51], FreeStateId |-> v[52],
           GetDeviceList |-> v[53], BindConnToSession |-> v[54],
           DestroyClientId |-> v[55], Seek |-> v[56], Allocate |-> v[57],
           DeAllocate |-> v[58], LayoutStats |-> v[59], Clone |-> v[60],
           Copy |-> v[61], OffloadCancel |-> v[62], LookupP |-> v[63],
           LayoutError |-> v[64], CopyNotify |-> v[65], GetXattr |-> v[66],
           SetXattr |-> v[67], ListXattrs |-> v[68], RemoveXattr |-> v[69],
           ReadPlus |-> v[70]])

\* parseV4statsServer: the test "values := int(v[0]); if ... { return V4statsServer{}, error }"
V4statsServerInvalid(v) == (Len(v) - 1) # v[1] \/ v[1] # 2

parseV4statsServer(v) ==
    IF Len(v) = 0
    THEN DecodePanic(V4statsServerFields)
    ELSE IF V4statsServerInvalid(v)
    THEN DecodeError(V4statsServerFields)
    ELSE IF Len(v) < 3
    THEN DecodePanic(V4statsServerFields)
    ELSE Decoded(
          [Fields |-> v[1], Null |-> v[2], Compound |-> v[3]])

\* parseV4ops: the test "values := int(v[0]); if ... { return V4ops{}, error }"
V4opsInvalidCountOnly(v) == v[1] < 40

V4opsInvalid(v) == Len(v) <= 76 \/ v[1] < 40

parseV4ops(v) ==
    IF Len(v) = 0
    THEN DecodePanic(V4opsFields)
    ELSE IF V4opsInvalid(v)
    THEN DecodeError(V4opsFields)
    ELSE IF Len(v) < 77
    THEN DecodePanic(V4opsFields)
    ELSE Decoded(
          [Fields |-> v[1], Unused0 |-> v[2], Unused1 |-> v[3],
           Unused2 |-> v[4], Access |-> v[5], Close |-> v[6],
           Commit |-> v[7], Create |-> v[8], DelegPurge |-> v[9],
           DelegReturn |-> v[10], GetAttr |-> v[11], GetFH |-> v[12],
           Link |-> v[13], Lock |-> v[14], LockT |-> v[15], LockU |-> v[16],
           Lookup |-> v[17], LookupP |-> v[18], Nverify |-> v[19],
           Open |-> v[20], OpenAttr |-> v[21], OpenConfirm |-> v[22],
           OpenDowngrade |-> v[23], PutFH |-> v[24], PutPubFH |-> v[25],
           PutRootFH |-> v[26], Read |-> v[27], ReadDir |-> v[28],
           ReadLink |-> v[29], Remove |-> v[30], Rename |-> v[31],
           Renew |-> v[32], RestoreFH |-> v[33], SaveFH |-> v[34],
           SecInfo |-> v[35], SetAttr |-> v[36], SetClientId |-> v[37],
           SetClientIdConfirm |-> v[38], Verify |-> v[39], Write |-> v[40],
           ReleaseLockOwner |-> v[41], BackChannelCtl |-> v[42],
           BindConnToSession |-> v[43], ExchangeId |-> v[44],
           CreateSession |-> v[45], DestroySession |-> v[46],
           FreeStateId |-> v[47], GetDirDelegation |-> v[48],
           GetDeviceInfo |-> v[49], GetDeviceList |-> v[50],
           LayoutCommit |-> v[51], LayoutGet |-> v[52],
           LayoutReturn |-> v[53], SecInfoNoName |-> v[54],
           Sequence |-> v[55], SetSSV |-> v[56], TestStateId |-> v[57],
           WantDelegation |-> v[58], DestroyClientId |-> v[59],
           ReclaimComplete |-> v[60], Allocate |-> v[61], Copy |-> v[62],
           CopyNotify |-> v[63], DeAllocate |-> v[64], IoAdvise |-> v[65],
           LayoutError |-> v[66], LayoutStats |-> v[67],
           OffloadCancel |-> v[68], OffloadStatus |-> v[69],
           ReadPlus |-> v[70], Seek |-> v[71], WriteSame |-> v[72],
           Clone |-> v[73], GetXattr |-> v[74], SetXattr |-> v[75],
           ListXattrs |-> v[76], RemoveXattr |-> v[77]])

\* ------------------------------------------------------------------------
\* Text: a line is a sequence of one-character strings
\* ------------------------------------------------------------------------
\* unicode.IsSpace, the white space strings.Fields splits on: tab, line
\* feed, vertical tab, form feed, carriage return, space, U+0085 and U+00A0,
\* and the space separators above U+00FF, which a string of the model
\* cannot hold and which are written by their code point.
IsSpace(c) ==
    c \in {"\t", "\n", "", "\f", "\r", " ", "", " ",
           "U+1680", "U+2000", "U+2001", "U+2002", "U+2003", "U+2004", "U+2005",
           "U+2006", "U+2007", "U+2008", "U+2009", "U+200A", "U+2028", "U+2029",
           "U+202F", "U+205F", "U+3000"}

\* strings.Fields: the maximal runs of non-space characters, in order.
\* FieldsFrom(s, k) are the fields of s from position k on: skip the white
\* space, take the run up to the next white space or the end, go on.
RECURSIVE FieldsFrom(_, _)
FieldsFrom(s, k) ==
    IF \A m \in k..Len(s) : IsSpace(s[m])
    THEN <<>>
    ELSE LET a == CHOOSE j \in k..Len(s) :
                      ~IsSpace(s[j]) /\ \A m \in k..(j - 1) : IsSpace(s[m])
             b == CHOOSE j \in a..Len(s) :
                      /\ \A m \in a..j : ~IsSpace(s[m])
                      /\ (j = Len(s) \/ IsSpace(s[j + 1]))
         IN  <<SubSeq(s, a, b)>> \o FieldsFrom(s, b + 1)

Fields(s) == FieldsFrom(s, 1)

DecimalDigits == <<"0", "1", "2", "3", "4", "5", "6", "7", "8", "9">>

IsDigit(c) == \E d \in 1..10 : DecimalDigits[d] = c

DigitValue(c) == (CHOOSE d \in 1..10 : DecimalDigits[d] = c) - 1

RECURSIVE DigitsValue(_, _)
DigitsValue(tok, k) ==
    IF k = 0 THEN 0 ELSE 10 * DigitsValue(tok, k - 1) + DigitValue(tok[k])

\* strconv.ParseUint(tok, 10, 64): an empty token or any character that is
\* not a decimal digit (a sign included) is a syntax error.  The inputs of
\* the model stay far below 2^64, so the range error does not occur.
ParseUint(tok) ==
    IF tok = <<>> \/ \E k \in 1..Len(tok) : ~IsDigit(tok[k])
    THEN [err |-> TRUE, val |-> 0]
    ELSE [err |-> FALSE, val |-> DigitsValue(tok, Len(tok))]

\* util.ParseUint64s(ss, min): every token as an unsigned integer, in order;
\* fails on a malformed token or on fewer than min tokens.
ParseUint64s(ss, min) ==
    IF Len(ss) < min \/ \E k \in 1..Len(ss) : ParseUint(ss[k]).err
    THEN [err |-> TRUE, values |-> <<>>]
    ELSE [err |-> FALSE, values |-> [k \in 1..Len(ss) |-> ParseUint(ss[k]).val]]

\* The labels of /proc/net/rpc/nfs and /proc/net/rpc/nfsd
L_net == <<"n", "e", "t">>

L_rpc == <<"r", "p", "c">>

L_proc2 == <<"p", "r", "o", "c", "2">>

L_proc3 == <<"p", "r", "o", "c", "3">>

L_proc4 == <<"p", "r", "o", "c", "4">>

L_proc4ops == <<"p", "r", "o", "c", "4", "o", "p", "s">>

L_rc == <<"r", "c">>

L_fh == <<"f", "h">>

L_io == <<"i", "o">>

L_th == <<"t", "h">>

L_ra == <<"r", "a">>

\* ------------------------------------------------------------------------
\* The stream parsers.  The outcome of one line is either "continue" with
\* the snapshot built so far, or "return" with what the parser returns.
\* ------------------------------------------------------------------------
Continue(st) == [next |-> "continue", err |-> "", snapshot |-> <<st>>]

\* "return nil, fmt.Errorf(...)": an error and no snapshot
FailKeepSnapshot(st, e) == [next |-> "return", err |-> e, snapshot |-> <<st>>]

Fail(st, e) == [next |-> "return", err |-> e, snapshot |-> <<>>]

\* "require at least <key> <value>"
TooFewPartsLabelOnly(parts) == Len(parts) < 1

TooFewParts(parts) == Len(parts) < 2

\* "stats.X, err = parseX(values)" followed by the test of err after the switch
StoreKeepFirst(st, field, r) ==
    IF r.err # "" THEN Fail(st, r.err)
    ELSE IF st[field] # [n \in DOMAIN st[field] |-> 0] THEN Continue(st)
    ELSE Continue([st EXCEPT ![field] = r.rec])

Store(st, field, r) ==
    IF r.err # "" THEN Fail(st, r.err) ELSE Continue([st EXCEPT ![field] = r.rec])

\* The default case of the client parser's switch
ClientDefaultIgnore(st, label) == Continue(st)

ClientDefault(st, label) == Fail(st, "unknown label")

\* The client parser's switch on the label
ClientDispatch(st, label, values) ==
    CASE label = L_rpc   -> Store(st, "RpcClient", parseRpcClient(values))
      [] label = L_proc2 -> Store(st, "V2stats", parseV2stats(values))
      [] label = L_proc3 -> Store(st, "V3stats", parseV3stats(values))
      [] label = L_proc4 -> Store(st, "V4statsClient", parseV4statsClient(values))
      [] OTHER           -> ClientDefault(st, label)

\* ParseProcNetRpcNfsStats: the body of the scanner loop for one line
ClientLine(st, line) ==
    LET parts == Fields(line) IN
    IF TooFewParts(parts) THEN Fail(st, "invalid line")
    ELSE LET label == parts[1] IN
         IF label = L_net THEN Continue(st)
         ELSE LET min == IF label = L_proc4 THEN LAST_NFS4_CLNT_OP + 2 ELSE 0
                  pu  == ParseUint64s(Tail(parts), min)
              IN  IF pu.err THEN Fail(st, "parse")
                  ELSE ClientDispatch(st, label, pu.values)

\* The default case of the server parser's switch
ServerDefault(st, label) == Fail(st, "unknown label")

\* The server parser's switch on the label
ServerDispatch(st, label, values) ==
    CASE label = L_rc       -> Store(st, "ReplyCache", parseReplyCache(values))
      [] label = L_io       -> Store(st, "InputOutput", parseInputOutput(values))
      [] label = L_net      -> Store(st, "Network", parseNetwork(values))
      [] label = L_rpc      -> Store(st, "RpcServer", parseRpcServer(values))
      [] label = L_proc2    -> Store(st, "V2stats", parseV2stats(values))
      [] label = L_proc3    -> Store(st, "V3stats", parseV3stats(values))
      [] label = L_proc4    -> Store(st, "V4statsServer", parseV4statsServer(values))
      [] label = L_proc4ops -> Store(st, "V4ops", parseV4ops(values))
      [] OTHER              -> ServerDefault(st, label)

\* The scanner loop body of the server parser without the th/fh branch
ServerLineNoBypass(st, line) ==
    LET parts == Fields(line) IN
    IF TooFewParts(parts) THEN Fail(st, "invalid line")
    ELSE LET label == parts[1] IN
         IF label = L_ra THEN Continue(st)
         ELSE LET min == IF label = L_proc4ops THEN LAST_NFS4_OP + 2 ELSE 0
                  pu  == ParseUint64s(Tail(parts), min)
              IN  IF pu.err THEN Fail(st, "parse")
                  ELSE ServerDispatch(st, label, pu.values)

\* ParseProcNetRpcNfsdStats: the body of the scanner loop for one line.
\* In the th/fh branch "u, err := strconv.ParseUint(...)" declares a new err:
\* when it is not nil the branch is left with the outer err still nil and
\* values still nil, and the switch is entered with the label th or fh.
ServerLine(st, line) ==
    LET parts == Fields(line) IN
    IF TooFewParts(parts) THEN Fail(st, "invalid line")
    ELSE LET label == parts[1] IN
         IF label = L_ra THEN Continue(st)
         ELSE IF label = L_th \/ label = L_fh
         THEN IF Len(parts) < 3 THEN Fail(st, "invalid line")
              ELSE LET u == ParseUint(parts[2]) IN
                   IF ~u.err
                   THEN IF label = L_th
                        THEN Continue([st EXCEPT !.Threads =
                                 [ZeroRecord(ThreadsFields) EXCEPT !.Threads = u.val]])
                        ELSE Continue([st EXCEPT !.FileHandles =
                                 [ZeroRecord(FileHandlesFields) EXCEPT !.Stale = u.val]])
                   ELSE ServerDispatch(st, label, <<>>)
         ELSE LET min == IF label = L_proc4ops THEN LAST_NFS4_OP + 2 ELSE 0
                  pu  == ParseUint64s(Tail(parts), min)
              IN  IF pu.err THEN Fail(st, "parse")
                  ELSE ServerDispatch(st, label, pu.values)

LineOutcome(sd, st, line) ==
    IF sd = "client" THEN ClientLine(st, line) ELSE ServerLine(st, line)

\* One iteration of "for scanner.Scan()" of either parser
ScanLine ==
    /\ parsePc = "scan"
    /\ pos <= Len(input)
    /\ LET o == LineOutcome(side, stats, input[pos]) IN
         /\ trace' = Append(trace, o.err)
         /\ IF o.next = "continue"
            THEN /\ stats' = o.snapshot[1]
                 /\ pos' = pos + 1
                 /\ UNCHANGED <<parsePc, ret>>
            ELSE /\ ret' = [snapshot |-> o.snapshot, err |-> o.err]
                 /\ parsePc' = "done"
                 /\ UNCHANGED <<stats, pos>>
    /\ UNCHANGED <<side, openErr, scanErr, input, dec, ch, updatePc>>

\* os.Open of ProcNetRpcNfsStats / ProcNetRpcNfsdStats: its error is
\* returned, or the parser is called on the file
Open ==
    /\ parsePc = "open"
    /\ IF openErr # ""
       THEN /\ ret' = [snapshot |-> <<>>, err |-> openErr]
            /\ parsePc' = "done"
       ELSE /\ parsePc' = "scan"
            /\ UNCHANGED ret
    /\ UNCHANGED <<side, openErr, scanErr, input, pos, stats, trace, dec, ch, updatePc>>

\* Scan() returns false: "return nil, error scanning" when scanner.Err() is
\* not nil (the reader failed, or a line is longer than the scanner's
\* buffer), else "return stats, nil"
ScanEnd ==
    /\ parsePc = "scan"
    /\ pos > Len(input)
    /\ ret' = (IF scanErr THEN [snapshot |-> <<>>, err |-> "scan"]
                          ELSE [snapshot |-> <<stats>>, err |-> ""])
    /\ parsePc' = "done"
    /\ UNCHANGED <<side, openErr, scanErr, input, pos, stats, trace, dec, ch, updatePc>>

\* A record decoder applied to the values of one line
Decoder(fn, v) ==
    CASE fn = "parseReplyCache"    -> parseReplyCache(v)
      [] fn = "parseInputOutput"   -> parseInputOutput(v)
      [] fn = "parseNetwork"       -> parseNetwork(v)
      [] fn = "parseRpcServer"     -> parseRpcServer(v)
      [] fn = "parseRpcClient"     -> parseRpcClient(v)
      [] fn = "parseV2stats"       -> parseV2stats(v)
      [] fn = "parseV3stats"       -> parseV3stats(v)
      [] fn = "parseV4statsClient" -> parseV4statsClient(v)
      [] fn = "parseV4statsServer" -> parseV4statsServer(v)
      [] fn = "parseV4ops"         -> parseV4ops(v)

Decoders ==
    {"parseReplyCache", "parseInputOutput", "parseNetwork", "parseRpcServer",
     "parseRpcClient", "parseV2stats", "parseV3stats", "parseV4statsClient",
     "parseV4statsServer", "parseV4ops"}

\* The call "stats.X, err = parseX(values)" on its own
Decode ==
    /\ dec.res.err = "pending"
    /\ dec' = [dec EXCEPT !.res = Decoder(dec.fn, dec.v)]
    /\ UNCHANGED <<side, openErr, scanErr, input, pos, stats, ret, parsePc, trace, ch, updatePc>>

\* ------------------------------------------------------------------------
\* The exposition of a versioned call table by the nfs and nfsd collectors:
\*   v := reflect.ValueOf(s).Elem()
\*   for i := int(s.Fields); i > lo; i-- { field := v.Field(i); ch <- ... }
\* with lo = 0, and lo = 2 for the proc4ops table.  reflect's Field(i) panics
\* when i is not below the number of fields of the struct.  Field i of the
\* struct is names[i + 1].
\* ------------------------------------------------------------------------
\* The loop started at i = n: iteration k handles field n - k + 1; only the
\* first iteration can be out of range.
ExposeLoop(names, rec, n, lo) ==
    IF n <= lo
    THEN [panic |-> FALSE, sent |-> <<>>]
    ELSE IF n >= Len(names)
    THEN [panic |-> TRUE, sent |-> <<>>]
    ELSE [panic |-> FALSE,
          sent  |-> [k \in 1..(n - lo) |->
                       LET i == n - k + 1 IN
                       [name |-> names[i + 1], value |-> rec[names[i + 1]]]]]

updateNFSRequestsv2Stats(s) == ExposeLoop(V2statsFields, s, s.Fields, 0)

updateNFSRequestsv3Stats(s) == ExposeLoop(V3statsFields, s, s.Fields, 0)

updateNFSRequestsv4Stats(s) == ExposeLoop(V4statsClientFields, s, s.Fields, 0)

updateNFSdRequestsV4Stats(s) == ExposeLoop(V4statsServerFields, s, s.Fields, 0)

updateNFSdRequestsV4Ops(s) == ExposeLoop(V4opsFields, s, s.Fields, 2)

\* The decoders of the versioned call tables with the fields of their record
\* in declaration order
CallTables ==
    [parseV2stats       |-> V2statsFields,
     parseV3stats       |-> V3statsFields,
     parseV4statsClient |-> V4statsClientFields,
     parseV4statsServer |-> V4statsServerFields,
     parseV4ops         |-> V4opsFields]

\* ------------------------------------------------------------------------
\* The pressure-stall parser.  Go indexes a string from 0: index i of the
\* source is position i + 1 of the model's line.
\* ------------------------------------------------------------------------
\* "type PSIStats struct { Some int64; Full int64 }"
ZeroPSIStats == [Some |-> 0, Full |-> 0]

\* strings.LastIndexByte(s, c): the index of the last c in s, -1 without one
LastIndexByte(s, c) ==
    IF \A k \in 1..Len(s) : s[k] # c
    THEN -1
    ELSE (CHOOSE k \in 1..Len(s) : s[k] = c /\ \A j \in (k + 1)..Len(s) : s[j] # c) - 1

\* strings.HasPrefix(s, prefix)
HasPrefix(s, prefix) ==
    /\ Len(s) >= Len(prefix)
    /\ SubSeq(s, 1, Len(prefix)) = prefix

\* strconv.ParseInt(tok, 10, 64): an optional sign followed by one or more
\* decimal digits; anything else is a syntax error.  The inputs of the model
\* stay far inside the int64 range, so the range error does not occur.
ParseInt(tok) ==
    LET signed == Len(tok) > 0 /\ tok[1] \in {"+", "-"}
        digits == IF signed THEN Tail(tok) ELSE tok
    IN  IF Len(digits) = 0 \/ \E k \in 1..Len(digits) : ~IsDigit(digits[k])
        THEN [err |-> TRUE, val |-> 0]
        ELSE [err |-> FALSE,
              val |-> IF signed /\ tok[1] = "-"
                      THEN 0 - DigitsValue(digits, Len(digits))
                      ELSE DigitsValue(digits, Len(digits))]

P_some == <<"s", "o", "m", "e", " ">>

P_full == <<"f", "u", "l", "l", " ">>

\* "return psiStats, err" keeps the fields stored so far
PsiFailSkip(st) == [next |-> "continue", err |-> "", psiStats |-> st]

PsiFail(st) == [next |-> "return", err |-> "parse", psiStats |-> st]

\* The two prefix tests of parsePSIStats
PsiStoreAnyPrefix(st, s, val) ==
    IF HasPrefix(s, P_full) THEN [st EXCEPT !.Full = val] ELSE [st EXCEPT !.Some = val]

PsiStore(st, s, val) ==
    IF HasPrefix(s, P_some) THEN [st EXCEPT !.Some = val]
    ELSE IF HasPrefix(s, P_full) THEN [st EXCEPT !.Full = val]
    ELSE st

\* A line without "=" is skipped
PsiSkipNever(i) == FALSE

PsiSkip(i) == i = -1

\* parsePSIStats: the body of the scanner loop for the line s
PsiLine(st, s) ==
    LET i == LastIndexByte(s, "=") IN
    IF PsiSkip(i)
    THEN [next |-> "continue", err |-> "", psiStats |-> st]
    ELSE LET r == ParseInt(SubSeq(s, i + 2, Len(s))) IN
         IF r.err
         THEN PsiFail(st)
         ELSE [next |-> "continue", err |-> "", psiStats |-> PsiStore(st, s, r.val)]

\* One iteration of "for scanner.Scan()" of parsePSIStats
PsiScanLine ==
    /\ psiPc = "scan"
    /\ psiPos <= Len(psiInput)
    /\ LET o == PsiLine(psiStats, psiInput[psiPos]) IN
         IF o.next = "continue"
         THEN /\ psiStats' = o.psiStats
              /\ psiPos' = psiPos + 1
              /\ UNCHANGED <<psiPc, psiRet>>
         ELSE /\ psiRet' = [psiStats |-> <<o.psiStats>>, err |-> o.err]
              /\ psiPc' = "done"
              /\ UNCHANGED <<psiStats, psiPos>>
    /\ UNCHANGED psiInput

\* End of input: "return psiStats, nil"
PsiScanEnd ==
    /\ psiPc = "scan"
    /\ psiPos > Len(psiInput)
    /\ psiRet' = [psiStats |-> <<psiStats>>, err |-> ""]
    /\ psiPc' = "done"
    /\ UNCHANGED <<psiInput, psiPos, psiStats>>

\* ------------------------------------------------------------------------
\* Update of the pressure collector
\* ------------------------------------------------------------------------
\* "prometheus.MustNewConstMetric(desc, ..., value, label)"
Sample(desc, name, value) == [desc |-> desc, name |-> name, value |-> value]

\* "psiResources = []string{...}"
psiResources == <<"cpu", "io", "memory">>

\* parsePSIStats as a function of the lines of its reader
RECURSIVE PsiParseFrom(_, _, _)
PsiParseFrom(st, lines, k) ==
    IF k > Len(lines)
    THEN [psiStats |-> st, err |-> ""]
    ELSE LET o == PsiLine(st, lines[k]) IN
         IF o.next = "continue"
         THEN PsiParseFrom(o.psiStats, lines, k + 1)
         ELSE [psiStats |-> o.psiStats, err |-> o.err]

\* PSIStatsForResource: the read error of the file, or the result of the parser
PSIStatsForResource(file) ==
    IF file.err # ""
    THEN [psiStats |-> ZeroPSIStats, err |-> file.err]
    ELSE PsiParseFrom(ZeroPSIStats, file.lines, 1)

\* The error Update returns for an error of PSIStatsForResource
PressureError(err) ==
    IF err \in {"ErrNotExist", "ENOTSUP"} THEN "ErrNoData" ELSE "failed"

\* "switch res": the samples of one resource
PressureSamples(res, vals) ==
    CASE res = "cpu"    -> <<Sample("cpu", "", vals.Some)>>
      [] res = "io"     -> <<Sample("io", "", vals.Some), Sample("ioFull", "", vals.Full)>>
      [] res = "memory" -> <<Sample("mem", "", vals.Some), Sample("memFull", "", vals.Full)>>
      [] OTHER          -> <<>>

\* One iteration of "for _, res := range psiResources"
PressureStep ==
    /\ pressureRet = "loop"
    /\ pressureIdx <= Len(psiResources)
    /\ LET res == psiResources[pressureIdx]
           r   == PSIStatsForResource(pressureFiles[res])
       IN  IF r.err # ""
           THEN /\ pressureRet' = PressureError(r.err)
                /\ UNCHANGED <<pressureIdx, pressureCh>>
           ELSE /\ pressureCh' = pressureCh \o PressureSamples(res, r.psiStats)
                /\ pressureIdx' = pressureIdx + 1
                /\ UNCHANGED pressureRet
    /\ UNCHANGED pressureFiles

\* After the last resource: "return nil"
PressureEnd ==
    /\ pressureRet = "loop"
    /\ pressureIdx > Len(psiResources)
    /\ pressureRet' = "nil"
    /\ UNCHANGED <<pressureFiles, pressureIdx, pressureCh>>

\* ------------------------------------------------------------------------
\* Update of the nfsd collector: the server source is parsed, then each
\* record is exposed by its update function, in the order of the calls; a
\* panic in one of them ends the sequence.  A sample carries the descriptor
\* it is built with and its label.
\* ------------------------------------------------------------------------
Sent(samples) == [panic |-> FALSE, sent |-> samples]

\* The samples of an exposition loop under the descriptor of the group
WithDesc(desc, o) ==
    [panic |-> o.panic,
     sent  |-> [k \in 1..Len(o.sent) |-> Sample(desc, o.sent[k].name, o.sent[k].value)]]

\* Two update functions called one after the other
AndThen(a, b) == IF a.panic THEN a ELSE [panic |-> b.panic, sent |-> a.sent \o b.sent]

updateNFSdReplyCacheStats(s) ==
    Sent(<<Sample("replyCacheDesc", "hit", s.Hits), Sample("replyCacheDesc", "miss", s.Misses),
           Sample("replyCacheDesc", "nocache", s.NoCache)>>)

updateNFSdFileHandlesStats(s) == Sent(<<Sample("fhStaleDesc", "stale", s.Stale)>>)

updateNFSdInputOutputStats(s) ==
    Sent(<<Sample("ioDesc", "read", s.Read), Sample("ioDesc", "write", s.Write)>>)

updateNFSdThreadsStats(s) == Sent(<<Sample("thDesc", "", s.Threads)>>)

updateNFSdNetworkStats(s) ==
    Sent(<<Sample("rpcMsgDesc", "any", s.NetCount), Sample("rpcMsgDesc", "udp", s.UDPCount),
           Sample("rpcMsgDesc", "tcp", s.TCPCount), Sample("rpcTcpConnDesc", "", s.TCPConnect)>>)

updateNFSdServerRPCStats(s) ==
    Sent(<<Sample("rpcCallCheckDesc", "good", s.Good), Sample("rpcCallCheckDesc", "bad_fmt", s.BadFmt),
           Sample("rpcCallCheckDesc", "bad_auth", s.BadAuth),
           Sample("rpcCallCheckDesc", "bad_clnt", s.BadClnt)>>)

updateNFSdRequestsV2Stats(s) == ExposeLoop(V2statsFields, s, s.Fields, 0)

updateNFSdRequestsV3Stats(s) == ExposeLoop(V3statsFields, s, s.Fields, 0)

\* "if c.skipX { return }" in front of the loop of a call table
UnlessSkipped(skipped, desc, o) == IF skipped THEN Sent(<<>>) ELSE WithDesc(desc, o)

\* The calls of (*nfsdCollector).Update up to updateNFSdRequestsV4Ops
NfsdExposeRecords(c, st) ==
    AndThen(updateNFSdReplyCacheStats(st.ReplyCache),
    AndThen(updateNFSdFileHandlesStats(st.FileHandles),
    AndThen(updateNFSdInputOutputStats(st.InputOutput),
    AndThen(updateNFSdThreadsStats(st.Threads),
    AndThen(updateNFSdNetworkStats(st.Network),
    AndThen(updateNFSdServerRPCStats(st.RpcServer),
    AndThen(UnlessSkipped(c.V2, "nfsV2callDesc", updateNFSdRequestsV2Stats(st.V2stats)),
    AndThen(UnlessSkipped(c.V3, "nfsV3callDesc", updateNFSdRequestsV3Stats(st.V3stats)),
    AndThen(UnlessSkipped(c.V4, "nfsV4callDesc", updateNFSdRequestsV4Stats(st.V4statsServer)),
            UnlessSkipped(c.V4ops, "nfsV4opDesc", updateNFSdRequestsV4Ops(st.V4ops)))))))))))

\* "if errors.Is(err, os.ErrNotExist) { return ErrNoData }; return
\* fmt.Errorf(failed to retrieve ...)"
UpdateError(err) == IF err = "ErrNotExist" THEN "nodata" ELSE "failed"

\* (*nfsdCollector).Update after ProcNetRpcNfsdStats has returned: an error
\* is returned to the caller as ErrNoData or as a failure, a snapshot is
\* exposed and the scan of pool_stats follows.
NfsdUpdate ==
    /\ side = "server"
    /\ parsePc = "done"
    /\ updatePc = "idle"
    /\ IF ret.err # ""
       THEN /\ updatePc' = UpdateError(ret.err)
            /\ UNCHANGED <<ch, poolPc>>
       ELSE LET o == NfsdExposeRecords(skip, ret.snapshot[1]) IN
            /\ ch' = o.sent
            /\ updatePc' = (IF o.panic THEN "panic" ELSE "done")
            /\ poolPc' = (IF o.panic THEN poolPc ELSE "open")
    /\ UNCHANGED <<side, openErr, scanErr, input, pos, stats, ret, parsePc, trace, dec>>
    /\ UNCHANGED <<skip, poolFile, poolPos, poolCh>>

\* updateNFSClientRPCStats: three samples of the client's RPC counters
updateNFSClientRPCStats(s) ==
    Sent(<<Sample("nfsRpcOpDesc", "request", s.RPCCount),
           Sample("nfsRpcOpDesc", "retransmit", s.Retransmissions),
           Sample("nfsRpcOpDesc", "authrefresh", s.AuthRefreshes)>>)

\* The calls of (*nfsCollector).Update on the snapshot
NfsExposeRecords(st) ==
    AndThen(updateNFSClientRPCStats(st.RpcClient),
    AndThen(WithDesc("nfsV2callDesc", updateNFSRequestsv2Stats(st.V2stats)),
    AndThen(WithDesc("nfsV3callDesc", updateNFSRequestsv3Stats(st.V3stats)),
            WithDesc("nfsV4callDesc", updateNFSRequestsv4Stats(st.V4statsClient)))))

\* (*nfsCollector).Update after ProcNetRpcNfsStats has returned: an error is
\* returned to the caller as ErrNoData or as a failure, a snapshot is exposed.
NfsUpdate ==
    /\ side = "client"
    /\ parsePc = "done"
    /\ updatePc = "idle"
    /\ IF ret.err # ""
       THEN /\ updatePc' = UpdateError(ret.err)
            /\ UNCHANGED ch
       ELSE LET o == NfsExposeRecords(ret.snapshot[1]) IN
            /\ ch' = o.sent
            /\ updatePc' = (IF o.panic THEN "panic" ELSE "done")
    /\ UNCHANGED <<side, openErr, scanErr, input, pos, stats, ret, parsePc, trace, dec>>

\* ------------------------------------------------------------------------
\* updateNFSdThreadStats: the scan of /proc/fs/nfsd/pool_stats
\* ------------------------------------------------------------------------
\* "var poolStatus = []string{...}"
poolStatus == <<"arrived", "enqueued", "woken", "timedout">>

\* "line[0] == '#'": indexing an empty string panics
PoolFirstByte(line) ==
    IF Len(line) = 0 THEN [panic |-> TRUE, comment |-> FALSE]
    ELSE [panic |-> FALSE, comment |-> line[1] = "#"]

\* "len(parts) != (len(poolStatus) + 1)"
PoolBadCount(parts) == Len(parts) # Len(poolStatus) + 1

\* "for i, s := range parts[1:]": a sample for every field that parses
PoolSamples(parts) ==
    LET field(i) == ParseUint(parts[i + 1])
        all == [i \in 1..(Len(parts) - 1) |->
                  [ok |-> ~field(i).err,
                   sample |-> [pool |-> parts[1], name |-> poolStatus[i], value |-> field(i).val]]]
        good == SelectSeq(all, LAMBDA e : e.ok)
    IN  [k \in 1..Len(good) |-> good[k].sample]

\* The body of the scanner loop for one line
PoolLine(line) ==
    LET b == PoolFirstByte(line) IN
    IF b.panic THEN [panic |-> TRUE, sent |-> <<>>]
    ELSE IF b.comment THEN [panic |-> FALSE, sent |-> <<>>]
    ELSE LET parts == Fields(line) IN
         IF PoolBadCount(parts) THEN [panic |-> FALSE, sent |-> <<>>]
         ELSE [panic |-> FALSE, sent |-> PoolSamples(parts)]

\* "if c.skipThreads { return }", "file, err := os.Open(...); if err != nil { return }"
PoolOpen ==
    /\ poolPc = "open"
    /\ poolPc' = (IF skip.Threads \/ poolFile = <<>> THEN "done" ELSE "scan")
    /\ UNCHANGED <<skip, poolFile, poolPos, poolCh>>

\* One iteration of "for scanner.Scan()"
PoolScanLine ==
    /\ poolPc = "scan"
    /\ poolPos <= Len(poolFile[1])
    /\ LET o == PoolLine(poolFile[1][poolPos]) IN
         IF o.panic
         THEN /\ poolPc' = "panic"
              /\ UNCHANGED <<poolPos, poolCh>>
         ELSE /\ poolCh' = poolCh \o o.sent
              /\ poolPos' = poolPos + 1
              /\ UNCHANGED poolPc
    /\ UNCHANGED <<skip, poolFile>>

\* End of input: the function returns
PoolScanEnd ==
    /\ poolPc = "scan"
    /\ poolPos > Len(poolFile[1])
    /\ poolPc' = "done"
    /\ UNCHANGED <<skip, poolFile, poolPos, poolCh>>

\* ------------------------------------------------------------------------
\* Inputs of the parsers and decoders within the bounds
\* ------------------------------------------------------------------------
RECURSIVE FormatUint(_)
FormatUint(n) ==
    IF n < 10
    THEN <<DecimalDigits[n + 1]>>
    ELSE FormatUint(n \div 10) \o <<DecimalDigits[(n % 10) + 1]>>

RECURSIVE Join(_)
Join(toks) ==
    IF toks = <<>> THEN <<>>
    ELSE IF Len(toks) = 1 THEN toks[1]
    ELSE toks[1] \o <<" ">> \o Join(Tail(toks))

\* The line "label v1 v2 ..." as the kernel prints it
Line(label, vals) == Join(<<label>> \o [k \in 1..Len(vals) |-> FormatUint(vals[k])])

\* A leading count d followed by n values, all different from each other
Counted(d, n, base) == <<d>> \o [k \in 1..n |-> base + k]

L_bogus == <<"b", "o", "g", "u", "s">>

NotANumber == <<"x">>

ClientLines ==
    { <<>>,
      L_net,
      Join(<<L_net, NotANumber, FormatUint(2)>>),
      Line(L_rpc, <<1, 2, 3>>),
      <<" ">> \o L_rpc \o <<" ", "\f">> \o FormatUint(40) \o <<"\t">> \o FormatUint(5) \o <<" ">>
          \o FormatUint(6) \o <<"\r">>,
      Line(L_rpc, <<1, 2>>),
      Join(<<L_rpc, FormatUint(1), NotANumber, FormatUint(3)>>),
      Line(L_bogus, <<1, 2, 3>>),
      L_bogus,
      Join(<<L_bogus, NotANumber>>),
      Line(L_th, <<8, 0>>),
      Line(L_proc2, Counted(18, 18, 200)),
      Line(L_proc2, Counted(17, 17, 200)),
      Line(L_proc3, Counted(22, 22, 300)),
      Line(L_proc4, Counted(69, 69, 400)),
      Line(L_proc4, Counted(59, 59, 400)) }

ServerLines ==
    { <<>>,
      L_ra,
      Join(<<L_ra, NotANumber, FormatUint(2)>>),
      L_net,
      Line(L_rc, <<10, 2, 1>>),
      L_rc \o <<"\f">> \o FormatUint(11) \o <<"">> \o FormatUint(3) \o <<" ">> \o FormatUint(2) \o <<"\r">>,
      <<"\r">>,
      Line(L_rc, <<1, 2>>),
      Join(<<L_rc, FormatUint(1), NotANumber, FormatUint(3)>>),
      Line(L_fh, <<3, 0, 0, 0, 0>>),
      Join(<<L_fh, NotANumber, FormatUint(0)>>),
      Line(L_io, <<7, 9>>),
      Line(L_th, <<8, 0>>),
      Line(L_th, <<8>>),
      Join(<<L_th, FormatUint(16), NotANumber>>),
      Join(<<L_th, NotANumber, FormatUint(0)>>),
      Line(L_net, <<4, 3, 2, 1>>),
      Line(L_rpc, <<5, 4, 3, 2, 1>>),
      Line(L_rpc, <<1, 2, 3>>),
      Line(L_bogus, <<1, 2, 3>>),
      L_bogus,
      Line(L_proc2, Counted(18, 18, 200)),
      Line(L_proc3, Counted(22, 22, 300)),
      Line(L_proc3, Counted(22, 21, 300)),
      Line(L_proc4, Counted(2, 2, 500)),
      Line(L_proc4ops, Counted(76, 76, 600)),
      Line(L_proc4ops, Counted(59, 59, 600)) }

\* The sources of at most MaxLines lines
Sources(lines) == UNION { [1..n -> lines] : n \in 0..MaxLines }

\* The value sequences handed to the decoders: a leading value d and n more
DeclaredCounts ==
    {0, 1, 2, 3, 4, 5, 6, 17, 18, 19, 21, 22, 23, 35, 36, 37, 38, 39, 40, 41,
     68, 69, 70, 75, 76, 77}

DecoderInputs == { Counted(d, n, 100) : d \in DeclaredCounts, n \in 0..MaxPayload }

\* The lines of a pressure file: a prefix followed by a body
PsiPrefixes ==
    { P_some, P_full, <<"s", "o", "m", "e">>, <<"c", "p", "u", " ">> }

PsiBodies ==
    { <<>>,
      <<"t", "o", "t", "a", "l">>,
      <<"t", "o", "t", "a", "l", "=">>,
      <<"t", "o", "t", "a", "l", "=", "0">>,
      <<"t", "o", "t", "a", "l", "=", "5">>,
      <<"t", "o", "t", "a", "l", "=", "-", "7">>,
      <<"t", "o", "t", "a", "l", "=", "+", "3">>,
      <<"t", "o", "t", "a", "l", "=", "-">>,
      <<"t", "o", "t", "a", "l", "=", "x">>,
      <<"a", "v", "g", "1", "0", "=", "0", ".", "0", "6", " ", "t", "o", "t", "a", "l", "=", "8", "5", "3">>,
      <<"t", "o", "t", "a", "l", "=", "4", " ", "a", "v", "g", "1", "0", "=", "0", ".", "0", "6">> }

PsiLines == { p \o b : p \in PsiPrefixes, b \in PsiBodies }

\* The pressure files of at most MaxPsiLines lines
PsiSources == UNION { [1..n -> PsiLines] : n \in 0..MaxPsiLines }

\* The line of pool 0 in a pool_stats table
PoolZeroLine == <<"0", " ", "1", "1", " ", "1", "2", " ", "1", "3", " ", "1", "4">>

\* The lines of a pool_stats table
PoolLines ==
    { <<>>,
      <<" ">>,
      <<"#">>,
      <<"#", " ", "p", "o", "o", "l", " ", "a", " ", "e", " ", "w", " ", "t">>,
      PoolZeroLine,
      <<"1", " ", "2", "1", " ", "2", "2", " ", "2", "3", " ", "2", "4">>,
      <<"0", " ", "1", "1", " ", "x", " ", "1", "3", " ", "1", "4">>,
      <<"0", " ", "1", "1", " ", "1", "2", " ", "1", "3">>,
      <<"0", " ", "1", "1", " ", "1", "2", " ", "1", "3", " ", "1", "4", " ", "1", "5">>,
      <<" ", "#", " ", "1", " ", "2", " ", "3", " ", "4">> }

\* The pool_stats files of at most MaxPoolLines lines, and the missing file
PoolFiles == {<<>>} \cup { <<f>> : f \in UNION { [1..n -> PoolLines] : n \in 0..MaxPoolLines } }

\* The labels of the versioned call tables in the source of a collector
CallTableLabels(sd) ==
    IF sd = "client" THEN {L_proc2, L_proc3, L_proc4} ELSE {L_proc2, L_proc3, L_proc4, L_proc4ops}

\* The sources that hold one line of a call table: a label, a declared
\* count and any number of values up to MaxPayload
ExposeSources(sd) == { <<Line(l, v)>> : l \in CallTableLabels(sd), v \in DecoderInputs }

\* The errors of os.Open: the file does not exist, or another error
OpenErrors == {"ErrNotExist", "EACCES"}

\* No flag of collector.nfsd.skip is set
NoSkip == [V2 |-> FALSE, V3 |-> FALSE, V4 |-> FALSE, V4ops |-> FALSE, Threads |-> FALSE]

\* The lines of the server source about the version groups
NfsdLines ==
    { Line(L_rc, <<10, 2, 1>>),
      Line(L_proc2, Counted(18, 18, 200)),
      Line(L_proc2, Counted(17, 17, 200)),
      Line(L_proc3, Counted(22, 22, 300)),
      Line(L_proc3, Counted(22, 21, 300)),
      Line(L_proc4, Counted(2, 2, 500)),
      Line(L_proc4, Counted(3, 3, 500)),
      Line(L_proc4ops, Counted(76, 76, 600)),
      Line(L_proc4ops, Counted(59, 76, 600)),
      Line(L_proc4ops, Counted(59, 59, 600)) }

\* The values of collector.nfsd.skip that name version groups
SkipLists ==
    { [NoSkip EXCEPT !.V2 = b2, !.V3 = b3, !.V4 = b4, !.V4ops = bo] :
        b2 \in BOOLEAN, b3 \in BOOLEAN, b4 \in BOOLEAN, bo \in BOOLEAN }

\* A total line of a pressure file
PsiTotalLine(prefix, digit) == prefix \o <<"t", "o", "t", "a", "l", "=", digit>>

\* The states of a file /proc/pressure/<resource>
PressureFileStates ==
    { [err |-> "ErrNotExist", lines |-> <<>>],
      [err |-> "ENOTSUP", lines |-> <<>>],
      [err |-> "EIO", lines |-> <<>>],
      [err |-> "", lines |-> <<>>],
      [err |-> "", lines |-> <<PsiTotalLine(P_some, "5"), PsiTotalLine(P_full, "4")>>],
      [err |-> "", lines |-> <<PsiTotalLine(P_some, "7"), PsiTotalLine(P_full, "x")>>] }

\* ------------------------------------------------------------------------
\* Specifications
\* ------------------------------------------------------------------------
\* No parse is in progress
NfsIdle ==
    /\ side = "none"
    /\ openErr = ""
    /\ scanErr = FALSE
    /\ input = <<>>
    /\ pos = 0
    /\ stats = ZeroNfsStats
    /\ ret = [snapshot |-> <<>>, err |-> ""]
    /\ parsePc = "idle"
    /\ trace = <<>>
    /\ dec = [fn |-> "none", v |-> <<>>, res |-> [err |-> "", rec |-> <<>>]]
    /\ ch = <<>>
    /\ updatePc = "idle"

\* parsePSIStats is not running
PsiIdle ==
    /\ psiInput = <<>>
    /\ psiPos = 0
    /\ psiStats = ZeroPSIStats
    /\ psiRet = [psiStats |-> <<>>, err |-> ""]
    /\ psiPc = "idle"

\* updateNFSdThreadStats is not running
PoolIdle ==
    /\ skip = NoSkip
    /\ poolFile = <<>>
    /\ poolPos = 0
    /\ poolCh = <<>>
    /\ poolPc = "idle"

\* The pressure collector is not updating
PressureIdle ==
    /\ pressureFiles = [res \in Range(psiResources) |-> [err |-> "", lines |-> <<>>]]
    /\ pressureIdx = 0
    /\ pressureCh = <<>>
    /\ pressureRet = "idle"

Init == CPUInit /\ NfsIdle /\ PsiIdle /\ PoolIdle /\ PressureIdle

\* One pass at a time over the full range of snapshots.
Next == PassStep(1, Snapshots) /\ UNCHANGED <<nfsVars, psiVars, poolVars, pressureVars>>

Spec == Init /\ [][Next]_vars

\* NumPasses concurrent passes on one collector.
NextConc == (\E p \in Passes : PassStep(p, ConcSnapshots)) /\ UNCHANGED <<nfsVars, psiVars, poolVars, pressureVars>>

SpecConc == Init /\ [][NextConc]_vars

\* What the other collectors do while the CPU collector runs: nothing.
OthersIdle == UNCHANGED <<nfsVars, psiVars, poolVars, pressureVars>>

\* A pass that can take a step that does not wait takes it: goroutines are
\* scheduled preemptively and the consumer drains the channel, so a send
\* of the exposition loop does not block for ever.
PassRuns(p) ==
    WF_vars((MergeStep(p) \/ MergeDone(p) \/ MergeUnlock(p) \/ ExposeStep(p) \/ ExposeUnlock(p))
                /\ OthersIdle)

\* sync.Mutex hands the mutex to a goroutine that has waited long enough
\* (starvation mode): a pass that finds the mutex free again and again gets it.
PassGetsLock(p) ==
    /\ SF_vars(MergeLock(p) /\ OthersIdle)
    /\ SF_vars(ExposeLock(p) /\ OthersIdle)

\* The snapshots of the passes under fair scheduling: the counters stand
\* still and the number of CPUs varies.
FairSnapshots == { MkSnapshot(n, MaxIdle, 0, MaxVal) : n \in 1..MaxCPUs }

NextFair == (\E p \in Passes : PassStep(p, FairSnapshots)) /\ OthersIdle

\* NumPasses concurrent passes under fair scheduling
SpecFair ==
    Init /\ [][NextFair]_vars /\ \A p \in Passes : PassRuns(p) /\ PassGetsLock(p)

\* NumPasses concurrent passes reading the counters of a kernel that only
\* counts upwards, on a machine whose number of CPUs is fixed.
InitMono ==
    /\ enableCPUGuest \in BOOLEAN
    /\ cpuStats = <<>>
    /\ cpuStatsMutex = FALSE
    /\ pc = [p \in Passes |-> "idle"]
    /\ newStats = [p \in Passes |-> <<>>]
    /\ idx = [p \in Passes |-> 0]
    /\ prevStats = [p \in Passes |-> <<>>]
    /\ sent = [p \in Passes |-> <<>>]
    /\ \E n \in 1..MaxCPUs : kernel = [k \in 1..n |-> KernelCPU(0)]
    /\ lastIdle = <<>>
    /\ mergedTable = [p \in Passes |-> <<>>]
    /\ lastMerged = [by |-> 0, table |-> <<>>]
    /\ NfsIdle /\ PsiIdle /\ PoolIdle /\ PressureIdle

NextMono ==
    ((\E p \in Passes : PassStep(p, {kernel})) \/ KernelAdvance)
        /\ UNCHANGED <<nfsVars, psiVars, poolVars, pressureVars>>

SpecMono == InitMono /\ [][NextMono]_vars

\* A stream parser is called on a source: "stats := &ProcNetRpcNfs[d]Stats{}"
InitNfs ==
    /\ CPUInit
    /\ PressureIdle
    /\ PsiIdle
    /\ PoolIdle
    /\ enableCPUGuest
    /\ side \in {"client", "server"}
    /\ openErr = ""
    /\ scanErr \in BOOLEAN
    /\ input \in Sources(IF side = "client" THEN ClientLines ELSE ServerLines)
    /\ pos = 1
    /\ stats = (IF side = "client" THEN ZeroNfsStats ELSE ZeroNfsdStats)
    /\ ret = [snapshot |-> <<>>, err |-> ""]
    /\ parsePc = "scan"
    /\ trace = <<>>
    /\ dec = [fn |-> "none", v |-> <<>>, res |-> [err |-> "", rec |-> <<>>]]
    /\ ch = <<>>
    /\ updatePc = "idle"

NextNfs == (ScanLine \/ ScanEnd) /\ UNCHANGED <<cpuVars, psiVars, poolVars, pressureVars>>

SpecNfs == InitNfs /\ [][NextNfs]_vars

\* The record decoders: a decoder is about to be called on the values of a line
InitDecode ==
    /\ CPUInit
    /\ PressureIdle
    /\ PsiIdle
    /\ PoolIdle
    /\ enableCPUGuest
    /\ side = "none"
    /\ openErr = ""
    /\ scanErr = FALSE
    /\ input = <<>>
    /\ pos = 0
    /\ stats = ZeroNfsStats
    /\ ret = [snapshot |-> <<>>, err |-> ""]
    /\ parsePc = "idle"
    /\ trace = <<>>
    /\ \E fn \in Decoders : \E v \in DecoderInputs :
          dec = [fn |-> fn, v |-> v, res |-> [err |-> "pending", rec |-> <<>>]]
    /\ ch = <<>>
    /\ updatePc = "idle"

NextDecode == Decode /\ UNCHANGED <<cpuVars, psiVars, poolVars, pressureVars>>

SpecDecode == InitDecode /\ [][NextDecode]_vars

\* parsePSIStats is called on a pressure file: "psiStats := PSIStats{}"
InitPsi ==
    /\ CPUInit
    /\ PressureIdle
    /\ PoolIdle
    /\ enableCPUGuest
    /\ NfsIdle
    /\ psiInput \in PsiSources
    /\ psiPos = 1
    /\ psiStats = ZeroPSIStats
    /\ psiRet = [psiStats |-> <<>>, err |-> ""]
    /\ psiPc = "scan"

NextPsi == (PsiScanLine \/ PsiScanEnd) /\ UNCHANGED <<cpuVars, nfsVars, poolVars, pressureVars>>

SpecPsi == InitPsi /\ [][NextPsi]_vars

\* updateNFSdThreadStats is called
InitPool ==
    /\ CPUInit
    /\ PressureIdle
    /\ enableCPUGuest
    /\ NfsIdle
    /\ PsiIdle
    /\ skip \in { [NoSkip EXCEPT !.Threads = b] : b \in BOOLEAN }
    /\ poolFile \in PoolFiles
    /\ poolPos = 1
    /\ poolCh = <<>>
    /\ poolPc = "open"

NextPool == (PoolOpen \/ PoolScanLine \/ PoolScanEnd) /\ UNCHANGED <<cpuVars, nfsVars, psiVars, pressureVars>>

SpecPool == InitPool /\ [][NextPool]_vars

\* One Update of the nfsd collector
InitNfsd ==
    /\ CPUInit
    /\ PressureIdle
    /\ enableCPUGuest
    /\ PsiIdle
    /\ side = "server"
    /\ \/ openErr \in OpenErrors /\ scanErr = FALSE /\ input = <<>>
       \/ openErr = "" /\ scanErr \in BOOLEAN /\ input \in Sources(NfsdLines)
    /\ pos = 1
    /\ stats = ZeroNfsdStats
    /\ ret = [snapshot |-> <<>>, err |-> ""]
    /\ parsePc = "open"
    /\ trace = <<>>
    /\ dec = [fn |-> "none", v |-> <<>>, res |-> [err |-> "", rec |-> <<>>]]
    /\ ch = <<>>
    /\ updatePc = "idle"
    /\ skip \in SkipLists
    /\ poolFile \in {<<>>, << <<PoolZeroLine>> >>}
    /\ poolPos = 1
    /\ poolCh = <<>>
    /\ poolPc = "idle"

NextNfsd ==
    \/ (Open \/ ScanLine \/ ScanEnd) /\ UNCHANGED <<cpuVars, psiVars, poolVars, pressureVars>>
    \/ NfsdUpdate /\ UNCHANGED <<cpuVars, psiVars, pressureVars>>
    \/ (PoolOpen \/ PoolScanLine \/ PoolScanEnd) /\ UNCHANGED <<cpuVars, nfsVars, psiVars, pressureVars>>

SpecNfsd == InitNfsd /\ [][NextNfsd]_vars

\* One Update of the nfs or the nfsd collector on a source that holds one
\* line of a call table, or that cannot be opened
InitExpose ==
    /\ CPUInit
    /\ PressureIdle
    /\ enableCPUGuest
    /\ PsiIdle
    /\ side \in {"client", "server"}
    /\ \/ openErr \in OpenErrors /\ scanErr = FALSE /\ input = <<>>
       \/ openErr = "" /\ scanErr \in BOOLEAN /\ input \in ExposeSources(side)
    /\ pos = 1
    /\ stats = (IF side = "client" THEN ZeroNfsStats ELSE ZeroNfsdStats)
    /\ ret = [snapshot |-> <<>>, err |-> ""]
    /\ parsePc = "open"
    /\ trace = <<>>
    /\ dec = [fn |-> "none", v |-> <<>>, res |-> [err |-> "", rec |-> <<>>]]
    /\ ch = <<>>
    /\ updatePc = "idle"
    /\ skip = NoSkip
    /\ poolFile = << <<PoolZeroLine>> >>
    /\ poolPos = 1
    /\ poolCh = <<>>
    /\ poolPc = "idle"

NextExpose ==
    \/ (Open \/ ScanLine \/ ScanEnd \/ NfsUpdate) /\ UNCHANGED <<cpuVars, psiVars, poolVars, pressureVars>>
    \/ NfsdUpdate /\ UNCHANGED <<cpuVars, psiVars, pressureVars>>
    \/ (PoolOpen \/ PoolScanLine \/ PoolScanEnd) /\ UNCHANGED <<cpuVars, nfsVars, psiVars, pressureVars>>

SpecExpose == InitExpose /\ [][NextExpose]_vars

\* One Update of the pressure collector
InitPressure ==
    /\ CPUInit
    /\ enableCPUGuest
    /\ NfsIdle
    /\ PsiIdle
    /\ PoolIdle
    /\ pressureFiles \in [Range(psiResources) -> PressureFileStates]
    /\ pressureIdx = 1
    /\ pressureCh = <<>>
    /\ pressureRet = "loop"

NextPressure == (PressureStep \/ PressureEnd) /\ UNCHANGED <<cpuVars, nfsVars, psiVars, poolVars>>

SpecPressure == InitPressure /\ [][NextPressure]_vars

\* ------------------------------------------------------------------------
\* Properties of the CPU reconciliation cache
\* ------------------------------------------------------------------------
\* A pass has finished the merge loop and still holds the mutex: cpuStats is
\* the result of merging newStats[p] into prevStats[p].
Merged(p) == pc[p] = "merged"

SameCount(p) == Len(prevStats[p]) = Len(newStats[p])

\* The value a merge stores for field f when nothing was retained for it:
\* the observed value, or zero for a guest field when guest tracking is off.
Observed(n, f) == IF f \in GuestFields /\ ~enableCPUGuest THEN 0 ELSE n[f]

\* C1 as stated: with an unchanged number of CPUs, no field of any CPU is
\* lower after a merge than it was before the merge.
C1_NeverDecreases ==
    \A p \in Passes : (Merged(p) /\ SameCount(p)) =>
        \A i \in 1..Len(cpuStats) : \A f \in CPUStatFields :
            cpuStats[i][f] >= prevStats[p][i][f]

\* C1 amended: with an unchanged number of CPUs, no field of a CPU is lower
\* after a merge than before it, provided the merge did not reset that CPU,
\* i.e. its retained idle value exceeded the observed one by less than
\* jumpBackSeconds.
C1_NeverDecreasesWithoutReset ==
    \A p \in Passes : (Merged(p) /\ SameCount(p)) =>
        \A i \in 1..Len(cpuStats) :
            (prevStats[p][i].Idle - newStats[p][i].Idle < jumpBackSeconds) =>
                \A f \in CPUStatFields : cpuStats[i][f] >= prevStats[p][i][f]

\* C1 witness: a merge without reset swallowed a regression of a field.
C1_Witness ==
    \E p \in Passes : Merged(p) /\ SameCount(p) /\
        \E i \in 1..Len(cpuStats) :
            /\ prevStats[p][i].Idle - newStats[p][i].Idle < jumpBackSeconds
            /\ \E f \in PlainFields :
                  /\ newStats[p][i][f] < prevStats[p][i][f]
                  /\ cpuStats[i][f] = prevStats[p][i][f]

\* C2: with an unchanged number of CPUs, a CPU whose retained idle value
\* exceeds the observed one by at least jumpBackSeconds ends the merge with
\* every field equal to the observed value (guest fields only when guest
\* tracking is on, zero otherwise), and a CPU without such a drop keeps a
\* record that is nowhere below its retained one.
C2_ResetOnIdleJump ==
    \A p \in Passes : (Merged(p) /\ SameCount(p)) =>
        \A i \in 1..Len(cpuStats) :
            IF prevStats[p][i].Idle - newStats[p][i].Idle >= jumpBackSeconds
            THEN \A f \in CPUStatFields : cpuStats[i][f] = Observed(newStats[p][i], f)
            ELSE \A f \in CPUStatFields : cpuStats[i][f] >= prevStats[p][i][f]

\* C2 witness: one CPU was reset and lost a retained value above the observed
\* one, while another CPU of the same merge kept a retained value.
C2_Witness ==
    \E p \in Passes : Merged(p) /\ SameCount(p) /\
        \E i, j \in 1..Len(cpuStats) :
            /\ i # j
            /\ prevStats[p][i].Idle - newStats[p][i].Idle >= jumpBackSeconds
            /\ \E f \in PlainFields \ {"Idle"} :
                  /\ prevStats[p][i][f] > newStats[p][i][f]
                  /\ cpuStats[i][f] = newStats[p][i][f]
            /\ prevStats[p][j].Idle - newStats[p][j].Idle < jumpBackSeconds
            /\ \E f \in PlainFields :
                  /\ prevStats[p][j][f] > newStats[p][j][f]
                  /\ cpuStats[j][f] = prevStats[p][j][f]

\* C3: with an unchanged number of CPUs and no reset of a CPU, every field
\* the merge covers (the eight plain fields, and the guest fields when guest
\* tracking is on) ends as the observed value when that is greater than or
\* equal to the retained one and as the retained value otherwise, whatever
\* happens to the other fields; a guest field is left as retained when guest
\* tracking is off.
C3_PerFieldMerge ==
    \A p \in Passes : (Merged(p) /\ SameCount(p)) =>
        \A i \in 1..Len(cpuStats) :
            (prevStats[p][i].Idle - newStats[p][i].Idle < jumpBackSeconds) =>
                \A f \in CPUStatFields :
                    cpuStats[i][f] =
                        IF f \in GuestFields /\ ~enableCPUGuest
                        THEN prevStats[p][i][f]
                        ELSE IF newStats[p][i][f] >= prevStats[p][i][f]
                             THEN newStats[p][i][f]
                             ELSE prevStats[p][i][f]

\* C3 witness: in one merge of one CPU, without reset, the idle value fell
\* and was kept, another field fell and was kept, a third rose and was taken.
C3_Witness ==
    \E p \in Passes : Merged(p) /\ SameCount(p) /\
        \E i \in 1..Len(cpuStats) :
            /\ prevStats[p][i].Idle - newStats[p][i].Idle < jumpBackSeconds
            /\ newStats[p][i].Idle < prevStats[p][i].Idle
            /\ cpuStats[i].Idle = prevStats[p][i].Idle
            /\ \E f, g \in PlainFields \ {"Idle"} :
                  /\ newStats[p][i][f] < prevStats[p][i][f]
                  /\ cpuStats[i][f] = prevStats[p][i][f]
                  /\ newStats[p][i][g] > prevStats[p][i][g]
                  /\ cpuStats[i][g] = newStats[p][i][g]

\* C4: after a merge the table has as many entries as the snapshot merged,
\* and when the snapshot's CPU count differed from the table's length every
\* field of every entry is the observed value (a guest field is zero when
\* guest tracking is off): nothing retained before the merge survives.
C4_CardinalityReset ==
    \A p \in Passes : Merged(p) =>
        /\ Len(cpuStats) = Len(newStats[p])
        /\ ~SameCount(p) =>
              \A i \in 1..Len(cpuStats) : \A f \in CPUStatFields :
                  cpuStats[i][f] = Observed(newStats[p][i], f)

\* C4 witness: the table shrank and an entry that remains lost a retained
\* value above the observed one.
C4_Witness ==
    \E p \in Passes : Merged(p) /\ Len(prevStats[p]) > Len(newStats[p]) /\
        \E i \in 1..Len(cpuStats) : \E f \in PlainFields :
            /\ prevStats[p][i][f] > newStats[p][i][f]
            /\ cpuStats[i][f] = newStats[p][i][f]

\* A pass is between a Lock() and the matching Unlock().
InCriticalSection(p) == pc[p] \in {"merge", "merged", "expose"}

\* C5: the merge and the exposition loop exclude each other, and any two
\* merges or expositions too: at most one pass is between Lock() and
\* Unlock(), the mutex is then held, and everything a pass has sent so far
\* in its exposition loop is the entry the table still holds, so that no
\* merge has touched the table since the loop began.
C5_MutualExclusion ==
    /\ \A p, q \in Passes : (p # q) => ~(InCriticalSection(p) /\ InCriticalSection(q))
    /\ \A p \in Passes : InCriticalSection(p) => cpuStatsMutex
    /\ \A p \in Passes : (pc[p] = "expose") =>
          /\ Len(sent[p]) = idx[p] - 1
          /\ Len(sent[p]) <= Len(cpuStats)
          /\ \A k \in 1..Len(sent[p]) : sent[p][k] = Samples(cpuStats[k], enableCPUGuest)

\* C5 witness: one pass is in the middle of its exposition loop while
\* another holds a snapshot that would change the table and waits for the
\* mutex.
C5_Witness ==
    \E p, q \in Passes :
        /\ p # q
        /\ pc[p] = "expose" /\ idx[p] = 2 /\ Len(cpuStats) = 2
        /\ pc[q] = "mergeLock"
        /\ ResetCache(cpuStats, newStats[q]) # cpuStats

\* ------------------------------------------------------------------------
\* Properties of the stream parsers and the record decoders
\* ------------------------------------------------------------------------
\* The labels a parser handles: skipped, special-cased or decoded
RecognizedLabels(sd) ==
    IF sd = "client"
    THEN {L_net, L_rpc, L_proc2, L_proc3, L_proc4}
    ELSE {L_ra, L_th, L_fh, L_rc, L_io, L_net, L_rpc, L_proc2, L_proc3, L_proc4, L_proc4ops}

\* A line "label v1 .. vn", n >= 1, with a label the parser does not
\* recognize and only well-formed unsigned integers after it
UnknownLabelLine(sd, line) ==
    LET parts == Fields(line) IN
        /\ Len(parts) >= 2
        /\ parts[1] \notin RecognizedLabels(sd)
        /\ \A k \in 2..Len(parts) : ~ParseUint(parts[k]).err

\* The parser has returned an error and no snapshot at line k
AbortedAt(k, e) ==
    /\ parsePc = "done"
    /\ Len(trace) = k
    /\ ret = [snapshot |-> <<>>, err |-> e]

\* C6: in either stream parser, once the scanner reaches a line with an
\* unrecognized label and well-formed values, the parse ends there with the
\* unknown-label error and without a snapshot, whatever was decoded before.
C6_UnknownLabelAborts ==
    \A k \in 1..Len(trace) :
        UnknownLabelLine(side, input[k]) => AbortedAt(k, "unknown label")

\* C6 witness: a line was decoded into the snapshot, then a line with an
\* unknown label and valid values ended the parse without a snapshot.
C6_Witness ==
    /\ parsePc = "done"
    /\ Len(trace) = 2
    /\ stats \notin {ZeroNfsStats, ZeroNfsdStats}
    /\ UnknownLabelLine(side, input[2])
    /\ ret = [snapshot |-> <<>>, err |-> "unknown label"]

\* C7: a stream parser returns either a snapshot and no error or an error
\* and no snapshot; if the processing of any line failed there is no
\* snapshot, and a returned snapshot is the one built from all lines of the
\* input, each processed without error; a reader that fails gives an error
\* and no snapshot.  Before the return there is no result.
C7_SnapshotOrError ==
    /\ (parsePc = "scan") => ret = [snapshot |-> <<>>, err |-> ""]
    /\ (parsePc = "done") =>
          /\ \/ (ret.err = "" /\ Len(ret.snapshot) = 1)
             \/ (ret.err # "" /\ ret.snapshot = <<>>)
          /\ (\E k \in 1..Len(trace) : trace[k] # "") => ret.snapshot = <<>>
          /\ scanErr => ret.snapshot = <<>>
          /\ (ret.snapshot # <<>>) =>
                /\ Len(trace) = Len(input)
                /\ \A k \in 1..Len(trace) : trace[k] = ""
                /\ ret.snapshot = <<stats>>

\* C7 witness: the parser had decoded a line into the snapshot when a later
\* line failed to decode, and it returned the error without the snapshot.
C7_Witness ==
    /\ parsePc = "done"
    /\ Len(trace) = 2
    /\ trace[1] = ""
    /\ trace[2] = "decode"
    /\ stats \notin {ZeroNfsStats, ZeroNfsdStats}
    /\ ret.snapshot = <<>>
    /\ ret.err = "decode"

\* C8: in either stream parser, once the scanner reaches a line with fewer
\* than two white-space separated tokens (a blank line, a bare label, also a
\* bare ra or net), the parse ends there with an error and without a snapshot.
C8_TooFewTokensAborts ==
    \A k \in 1..Len(trace) :
        (Len(Fields(input[k])) < 2) => AbortedAt(k, "invalid line")

\* C8 witness: after a decoded line, a bare label that the parser would
\* otherwise skip (net for the client, ra for the server) ended the parse.
C8_Witness ==
    /\ parsePc = "done"
    /\ Len(trace) = 2
    /\ trace[1] = ""
    /\ \/ (side = "client" /\ Fields(input[2]) = <<L_net>>)
       \/ (side = "server" /\ Fields(input[2]) = <<L_ra>>)
    /\ ret.snapshot = <<>>
    /\ ret.err = "invalid line"

\* The fixed-arity decoders with the number of values each takes and the
\* fields of its record in declaration order
FixedArity ==
    [parseReplyCache  |-> [arity |-> 3, names |-> ReplyCacheFields],
     parseInputOutput |-> [arity |-> 2, names |-> InputOutputFields],
     parseNetwork     |-> [arity |-> 4, names |-> NetworkFields],
     parseRpcServer   |-> [arity |-> 5, names |-> RpcServerFields],
     parseRpcClient   |-> [arity |-> 3, names |-> RpcClientFields]]

\* C9: a fixed-arity decoder (rc 3, io 2, server net 4, server rpc 5, client
\* rpc 3) succeeds exactly when it is given that many values, and then field
\* k of the record, in declaration order, is value k; with any other number
\* of values it returns a decode error.
C9_FixedArityDecoders ==
    (dec.fn \in DOMAIN FixedArity /\ dec.res.err # "pending") =>
        LET d == FixedArity[dec.fn] IN
            IF Len(dec.v) = d.arity
            THEN /\ dec.res.err = ""
                 /\ DOMAIN dec.res.rec = Range(d.names)
                 /\ \A k \in 1..d.arity : dec.res.rec[d.names[k]] = dec.v[k]
            ELSE dec.res.err = "decode"

\* C9 witness: the server rpc decoder took five different values and put the
\* last one into BadClnt.
C9_Witness ==
    /\ dec.fn = "parseRpcServer"
    /\ dec.res.err = ""
    /\ Len(dec.v) = 5
    /\ dec.res.rec.Good = dec.v[1]
    /\ dec.res.rec.BadClnt = dec.v[5]
    /\ dec.v[1] # dec.v[5]

\* C10: proc2, proc3 and server proc4 decode successfully exactly when the
\* number of values after the leading count equals the leading count and the
\* leading count is at least 18 (proc2), at least 22 (proc3), exactly 2
\* (server proc4); otherwise the decoder returns a decode error.
C10_CountedDecoders ==
    (dec.fn \in {"parseV2stats", "parseV3stats", "parseV4statsServer"} /\ dec.res.err # "pending") =>
        LET declared  == dec.v[1]
            following == Len(dec.v) - 1
            accepted  ==
                /\ following = declared
                /\ (dec.fn = "parseV2stats") => declared >= 18
                /\ (dec.fn = "parseV3stats") => declared >= 22
                /\ (dec.fn = "parseV4statsServer") => declared = 2
        IN  dec.res.err = (IF accepted THEN "" ELSE "decode")

\* C10 witness: a proc3 line that declares 23 values and carries 23 was
\* decoded.
C10_Witness ==
    /\ dec.fn = "parseV3stats"
    /\ dec.res.err = ""
    /\ dec.v[1] = 23
    /\ Len(dec.v) = 24
    /\ dec.res.rec.Fields = 23
    /\ dec.res.rec.Commit = dec.v[23]

\* The least leading count each call-table decoder accepts
MinDeclared ==
    [parseV2stats |-> 18, parseV3stats |-> 22, parseV4statsClient |-> 36,
     parseV4statsServer |-> 2, parseV4ops |-> 40]

\* A call-table decoder has been applied to a leading count and its values
CallTableDecoded == dec.fn \in DOMAIN CallTables /\ dec.res.err # "pending"

\* The names of the first n counters of a call table
FirstCounters(names, n) == { names[k + 1] : k \in 1..(IF n < Len(names) THEN n ELSE Len(names) - 1) }

\* The call table a label of the source of a collector fills: its decoder,
\* the field of the snapshot and the descriptor of its samples
CallTableOf(sd, label) ==
    CASE label = L_proc2    -> [fn |-> "parseV2stats", field |-> "V2stats", desc |-> "nfsV2callDesc"]
      [] label = L_proc3    -> [fn |-> "parseV3stats", field |-> "V3stats", desc |-> "nfsV3callDesc"]
      [] label = L_proc4    ->
            IF sd = "client"
            THEN [fn |-> "parseV4statsClient", field |-> "V4statsClient", desc |-> "nfsV4callDesc"]
            ELSE [fn |-> "parseV4statsServer", field |-> "V4statsServer", desc |-> "nfsV4callDesc"]
      [] label = L_proc4ops -> [fn |-> "parseV4ops", field |-> "V4ops", desc |-> "nfsV4opDesc"]

\* The samples on the channel that carry the descriptor desc, in order
SamplesOf(desc) == LET Carries(x) == x.desc = desc IN SelectSeq(ch, Carries)

\* The parser has returned from a source that holds one line of a call
\* table and that was read without error
CallTableParsed == input # <<>> /\ ~scanErr /\ parsePc = "done"

\* C11: for a self-describing line (proc2, proc3, client proc4, server proc4,
\* proc4ops) whose leading count is acceptable for its version, the parse
\* fails when fewer values follow than the count declares, and succeeds when
\* at least as many follow, up to the number of counters of the schema; the
\* Update of the collector then completes and sends for this table only
\* counters among the first `declared` ones.
C11_DeclaredCountDecides ==
    CallTableParsed =>
        LET parts    == Fields(input[1])
            t        == CallTableOf(side, parts[1])
            names    == CallTables[t.fn]
            schema   == Len(names) - 1
            declared == ParseUint(parts[2]).val
            trailing == Len(parts) - 2
        IN  (declared >= MinDeclared[t.fn]) =>
              /\ (trailing < declared) => ret.err # ""
              /\ (declared <= trailing /\ trailing <= schema) =>
                    /\ ret.err = ""
                    /\ (updatePc # "idle") =>
                          /\ updatePc = "done"
                          /\ \A k \in 1..Len(ch) :
                                (ch[k].desc = t.desc) => ch[k].name \in FirstCounters(names, declared)

\* C12 as stated: a client proc4 line is decoded successfully exactly when
\* its declared operation count is at least 38 and its payload, the leading
\* count included, holds at least 69 values.
C12_ClientProc4Accepts38And69 ==
    (dec.fn = "parseV4statsClient" /\ dec.res.err # "pending") =>
        (dec.res.err = "" <=> (dec.v[1] >= 38 /\ Len(dec.v) >= 69))

\* C12 amended: a client proc4 line is decoded successfully exactly when its
\* declared operation count is at least 36 and its payload, the leading
\* count included, holds at least 70 values; otherwise the decoder returns a
\* decode error.
C12_ClientProc4Accepts36And70 ==
    (dec.fn = "parseV4statsClient" /\ dec.res.err # "pending") =>
        dec.res.err = (IF dec.v[1] >= 36 /\ Len(dec.v) >= 70 THEN "" ELSE "decode")

\* C12 witness: a client proc4 line that declares 36 operations and carries
\* 70 values in all was decoded, the last value into ReadPlus.
C12_Witness ==
    /\ dec.fn = "parseV4statsClient"
    /\ dec.res.err = ""
    /\ dec.v[1] = 36
    /\ Len(dec.v) = 70
    /\ dec.res.rec.Fields = 36
    /\ dec.res.rec.ReadPlus = dec.v[70]

\* C13: a server proc4ops line is decoded successfully exactly when its
\* declared operation count is at least 40 and its payload, the leading
\* count included, holds at least 77 values; otherwise the decoder returns a
\* decode error.
C13_Proc4opsAccepts40And77 ==
    (dec.fn = "parseV4ops" /\ dec.res.err # "pending") =>
        dec.res.err = (IF dec.v[1] >= 40 /\ Len(dec.v) >= 77 THEN "" ELSE "decode")

\* C13 witness: a proc4ops line that declares 40 operations and carries 77
\* values in all was decoded, the last value into RemoveXattr.
C13_Witness ==
    /\ dec.fn = "parseV4ops"
    /\ dec.res.err = ""
    /\ dec.v[1] = 40
    /\ Len(dec.v) = 77
    /\ dec.res.rec.Fields = 40
    /\ dec.res.rec.RemoveXattr = dec.v[77]

\* C14: every record decoded from a self-describing line has a Fields value
\* that does not exceed the number of values following the leading count,
\* and a line with fewer values after the leading count than it declares is
\* rejected.
C14_FieldsWithinPayload ==
    CallTableDecoded =>
        LET declared  == dec.v[1]
            following == Len(dec.v) - 1
        IN  /\ (dec.res.err = "") => dec.res.rec.Fields <= following
            /\ (following < declared) => dec.res.err # ""

\* C15: the Update of a collector on a decoded call table sends for it the
\* counters from the first one exposed (field 1, field 3 for proc4ops) up
\* to the smaller of the record's Fields value and the number of counters
\* of its schema, each with its value, and does not fail when Fields is
\* larger than the schema.
C15_ExposureClamped ==
    (CallTableParsed /\ ret.err = "" /\ updatePc # "idle") =>
        LET t      == CallTableOf(side, Fields(input[1])[1])
            names  == CallTables[t.fn]
            rec    == ret.snapshot[1][t.field]
            schema == Len(names) - 1
            last   == IF rec.Fields < schema THEN rec.Fields ELSE schema
            first  == IF t.fn = "parseV4ops" THEN 3 ELSE 1
        IN  /\ updatePc = "done"
            /\ { ch[k] : k \in { j \in 1..Len(ch) : ch[j].desc = t.desc } } =
                  { Sample(t.desc, names[i + 1], rec[names[i + 1]]) : i \in first..last }

\* The snapshot a stream parser starts from: "stats := &ProcNetRpcNfs[d]Stats{}"
ZeroStats(sd) == IF sd = "client" THEN ZeroNfsStats ELSE ZeroNfsdStats

\* A stream parser as a function of its source: the scanner loop from line k on
\* on a reader that fails after the last line when fails is TRUE
RECURSIVE ParseFrom(_, _, _, _, _)
ParseFrom(sd, st, lines, k, fails) ==
    IF k > Len(lines)
    THEN IF fails THEN [snapshot |-> <<>>, err |-> "scan"] ELSE [snapshot |-> <<st>>, err |-> ""]
    ELSE LET o == LineOutcome(sd, st, lines[k]) IN
         IF o.next = "continue"
         THEN ParseFrom(sd, o.snapshot[1], lines, k + 1, fails)
         ELSE [snapshot |-> o.snapshot, err |-> o.err]

ParseProcNetRpcStats(sd, lines, fails) == ParseFrom(sd, ZeroStats(sd), lines, 1, fails)

\* The labels that fill a sub-record of the snapshot, with its field
SubRecords(sd) ==
    IF sd = "client"
    THEN { [label |-> L_rpc, field |-> "RpcClient"], [label |-> L_proc2, field |-> "V2stats"],
           [label |-> L_proc3, field |-> "V3stats"], [label |-> L_proc4, field |-> "V4statsClient"] }
    ELSE { [label |-> L_rc, field |-> "ReplyCache"], [label |-> L_fh, field |-> "FileHandles"],
           [label |-> L_io, field |-> "InputOutput"], [label |-> L_th, field |-> "Threads"],
           [label |-> L_net, field |-> "Network"], [label |-> L_rpc, field |-> "RpcServer"],
           [label |-> L_proc2, field |-> "V2stats"], [label |-> L_proc3, field |-> "V3stats"],
           [label |-> L_proc4, field |-> "V4statsServer"], [label |-> L_proc4ops, field |-> "V4ops"] }

\* The source with lines k and k + 1 exchanged
SwapLines(lines, k) ==
    [j \in 1..Len(lines) |->
        IF j = k THEN lines[k + 1] ELSE IF j = k + 1 THEN lines[k] ELSE lines[j]]

\* The largest element of a non-empty set of numbers
Last(ks) == CHOOSE k \in ks : \A j \in ks : j <= k

\* C16: when a stream parser returns a snapshot (every line was valid), each
\* sub-record is what the last line bearing its label decodes to on its own,
\* a sub-record whose label does not occur is zero, and exchanging two
\* neighbouring lines with different labels gives the same snapshot.
C16_LastWriteWins ==
    (parsePc = "done" /\ ret.err = "") =>
        LET snap == ret.snapshot[1]
            labelOf(k) == Fields(input[k])[1]
        IN  /\ \A sr \in SubRecords(side) :
                  LET ks == { k \in 1..Len(input) : labelOf(k) = sr.label } IN
                  IF ks = {}
                  THEN snap[sr.field] = ZeroStats(side)[sr.field]
                  ELSE snap[sr.field] =
                         LineOutcome(side, ZeroStats(side), input[Last(ks)]).snapshot[1][sr.field]
            /\ \A k \in 1..(Len(input) - 1) :
                  (labelOf(k) # labelOf(k + 1)) =>
                      ParseProcNetRpcStats(side, SwapLines(input, k), scanErr) = ret

\* C16 witness: the client parser read two valid rpc lines with different
\* values followed by nothing else, and returned the values of the second.
C16_Witness ==
    /\ parsePc = "done"
    /\ ret.err = ""
    /\ side = "client"
    /\ Len(input) = 2
    /\ Fields(input[1]) = <<L_rpc, FormatUint(1), FormatUint(2), FormatUint(3)>>
    /\ Fields(input[2]) = <<L_rpc, FormatUint(40), FormatUint(5), FormatUint(6)>>
    /\ ret.snapshot[1].RpcClient = [RPCCount |-> 40, Retransmissions |-> 5, AuthRefreshes |-> 6]

\* A th or fh line with at least two tokens after the label
ThFhLine(line) ==
    LET parts == Fields(line) IN
    /\ Len(parts) >= 3
    /\ parts[1] \in {L_th, L_fh}

\* The server parser is about to process line pos
ServerAt == side = "server" /\ parsePc = "scan" /\ pos <= Len(input)

\* C17: when the server parser processes a th (resp. fh) line whose first
\* value is a valid unsigned integer and that has at least one more token,
\* it goes on to the next line with Threads (resp. FileHandles) replaced by a
\* record that holds the first value in Threads (resp. Stale) and zero in
\* every other field, whatever the further tokens are, and with the rest of
\* the snapshot unchanged.
C17_ThFhFirstValueOnly ==
    [][ (ServerAt /\ ThFhLine(input[pos]) /\ ~ParseUint(Fields(input[pos])[2]).err) =>
          LET parts == Fields(input[pos])
              u     == ParseUint(parts[2]).val
          IN  /\ pos' = pos + 1
              /\ parsePc' = "scan"
              /\ trace' = Append(trace, "")
              /\ stats' = IF parts[1] = L_th
                          THEN [stats EXCEPT !.Threads =
                                  [n \in Range(ThreadsFields) |-> IF n = "Threads" THEN u ELSE 0]]
                          ELSE [stats EXCEPT !.FileHandles =
                                  [n \in Range(FileHandlesFields) |-> IF n = "Stale" THEN u ELSE 0]]
      ]_vars

\* C17 witness: the server parser has processed a th line whose first value
\* is 16 and whose second token is not a number, and Threads.Threads is 16.
C17_Witness ==
    /\ side = "server"
    /\ pos = 2
    /\ trace = <<"">>
    /\ Fields(input[1]) = <<L_th, FormatUint(16), NotANumber>>
    /\ stats.Threads.Threads = 16
    /\ stats.Threads.FullCnt = 0

\* C18: in the server parser, once the scanner reaches a th or fh line (with
\* at least two tokens after the label) whose first value is not a valid
\* unsigned decimal integer, the parse ends there without a snapshot and
\* with a parse error, the error of a malformed token on any other line.
C18_ThFhMalformedIsParseError ==
    (side = "server") =>
        \A k \in 1..Len(trace) :
            (ThFhLine(input[k]) /\ ParseUint(Fields(input[k])[2]).err) => AbortedAt(k, "parse")

\* The line contains "="
HasEquals(s) == \E k \in 1..Len(s) : s[k] = "="

\* The text after the last "=" of a line that contains one
AfterLastEquals(s) ==
    LET k == CHOOSE k \in 1..Len(s) : s[k] = "=" /\ \A j \in (k + 1)..Len(s) : s[j] # "="
    IN  SubSeq(s, k + 1, Len(s))

\* Line s stores the integer after its last "=" under the given prefix
StoresUnder(s, prefix) ==
    HasEquals(s) /\ HasPrefix(s, prefix) /\ ~ParseInt(AfterLastEquals(s)).err

\* What a field fed by the lines with the given prefix holds after the lines
\* before line n: the integer of the last such line, zero without one
LastStored(lines, n, prefix) ==
    LET ks == { k \in 1..(n - 1) : StoresUnder(lines[k], prefix) } IN
    IF ks = {} THEN 0 ELSE ParseInt(AfterLastEquals(lines[Last(ks)])).val

\* parsePSIStats is about to process line psiPos
PsiAt == psiPc = "scan" /\ psiPos <= Len(psiInput)

\* C19: when parsePSIStats processes a line that contains "=", starts with
\* "some " (resp. "full ") and has a signed integer after its last "=", it
\* stores that integer into Some (resp. Full) and leaves the other field; a
\* line without "=" or with another prefix leaves both fields as they are.
\* So a field holds the integer of the last such line processed, zero when
\* there was none, and a result returned without error holds that for the
\* whole input.
C19_PsiStoresTotals ==
    /\ [][ PsiAt =>
             LET s == psiInput[psiPos] IN
             /\ StoresUnder(s, P_some) =>
                   psiStats' = [psiStats EXCEPT !.Some = ParseInt(AfterLastEquals(s)).val]
             /\ StoresUnder(s, P_full) =>
                   psiStats' = [psiStats EXCEPT !.Full = ParseInt(AfterLastEquals(s)).val]
             /\ (~HasEquals(s) \/ (~HasPrefix(s, P_some) /\ ~HasPrefix(s, P_full))) =>
                   psiStats' = psiStats
       ]_vars
    /\ [](psiPc # "idle" =>
             /\ psiStats.Some = LastStored(psiInput, psiPos, P_some)
             /\ psiStats.Full = LastStored(psiInput, psiPos, P_full))
    /\ []((psiPc = "done" /\ psiRet.err = "") =>
             psiRet.psiStats =
                <<[Some |-> LastStored(psiInput, Len(psiInput) + 1, P_some),
                   Full |-> LastStored(psiInput, Len(psiInput) + 1, P_full)]>>)

\* C19 witness: of a two-line file, "full ...=853" then a "some " line with
\* a negative total, parsePSIStats returned Full = 853 and Some = -7; the
\* first line holds an earlier "=" followed by text that is not an integer.
C19_Witness ==
    /\ psiPc = "done"
    /\ psiRet = [psiStats |-> <<[Some |-> 0 - 7, Full |-> 853]>>, err |-> ""]
    /\ Len(psiInput) = 2
    /\ HasPrefix(psiInput[1], P_full)
    /\ LastIndexByte(psiInput[1], "=") > 10
    /\ HasPrefix(psiInput[2], P_some)

\* The line contains "=" and the text after the last one is not an integer
MalformedTotal(s) == HasEquals(s) /\ ParseInt(AfterLastEquals(s)).err

\* C20: parsePSIStats returns an error exactly when some line of the input
\* contains "=" and the text after its last "=" is not a signed decimal
\* integer; lines without "=" never cause one, and without such a line the
\* end of input yields a result and no error.
C20_PsiErrorIffMalformedTotal ==
    (psiPc = "done") =>
        /\ (psiRet.err # "") <=> (\E k \in 1..Len(psiInput) : MalformedTotal(psiInput[k]))
        /\ (psiRet.err = "") => Len(psiRet.psiStats) = 1

\* C20 witness: parsePSIStats returned a result and no error for a file of
\* two lines without "=", the first starting with "some ", the second with
\* another prefix.
C20_Witness ==
    /\ psiPc = "done"
    /\ psiRet.err = ""
    /\ Len(psiRet.psiStats) = 1
    /\ Len(psiInput) = 2
    /\ HasPrefix(psiInput[1], P_some) /\ ~HasEquals(psiInput[1])
    /\ ~HasPrefix(psiInput[2], P_some) /\ ~HasPrefix(psiInput[2], P_full)
    /\ Len(psiInput[2]) > 5 /\ ~HasEquals(psiInput[2])

\* C21 as stated: the pressure parser skips a malformed line and goes on, so
\* that the result holds the integer of every valid some or full line of the
\* input, also of one that comes after a malformed line.
C21_PsiSkipsMalformedLine ==
    (psiPc = "done") =>
        psiRet.psiStats =
           <<[Some |-> LastStored(psiInput, Len(psiInput) + 1, P_some),
              Full |-> LastStored(psiInput, Len(psiInput) + 1, P_full)]>>

\* C21 amended: the pressure parser stops at the first line that contains
\* "=" followed by text that is not an integer: it returns an error together
\* with what the lines before that one stored, and no later line is
\* processed; only lines without "=" or with an unknown prefix are skipped.
C21_PsiStopsAtMalformedLine ==
    \A k \in 1..Len(psiInput) :
        (psiPc # "idle" /\ MalformedTotal(psiInput[k])
            /\ \A j \in 1..(k - 1) : ~MalformedTotal(psiInput[j])) =>
              /\ psiPos <= k
              /\ (psiPc = "done") =>
                    /\ psiPos = k
                    /\ psiRet = [psiStats |-> <<[Some |-> LastStored(psiInput, k, P_some),
                                                 Full |-> LastStored(psiInput, k, P_full)]>>,
                                 err |-> "parse"]

\* C21 witness: the first line is malformed, the second is a valid some line
\* with the value 5; parsePSIStats returned the error and Some = 0.
C21_Witness ==
    /\ psiPc = "done"
    /\ Len(psiInput) = 2
    /\ MalformedTotal(psiInput[1])
    /\ StoresUnder(psiInput[2], P_some)
    /\ ParseInt(AfterLastEquals(psiInput[2])).val = 5
    /\ psiRet = [psiStats |-> <<ZeroPSIStats>>, err |-> "parse"]

\* The scan of pool_stats is about to process line poolPos
PoolAt == poolPc = "scan" /\ poolPos <= Len(poolFile[1])

\* A line that is not a comment
PoolNonComment(line) == Len(line) = 0 \/ line[1] # "#"

\* A pool name followed by four unsigned integers
PoolWellFormed(line) ==
    /\ PoolNonComment(line)
    /\ Len(Fields(line)) = 5
    /\ \A k \in 2..5 : ~ParseUint(Fields(line)[k]).err

\* The four samples of a well-formed line
FourSamples(line) ==
    [i \in 1..4 |-> [pool |-> Fields(line)[1], name |-> poolStatus[i],
                      value |-> ParseUint(Fields(line)[i + 1]).val]]

\* C22: when the scan of pool_stats processes a non-comment line whose token
\* count is not 5, it sends no sample and goes on to the next line; and
\* when it processes a well-formed line it sends that line's four samples,
\* whatever lines came before.
C22_PoolBadCountSkipped ==
    [][ PoolAt =>
          LET line == poolFile[1][poolPos] IN
          /\ (PoolNonComment(line) /\ Len(Fields(line)) # 5) =>
                (poolCh' = poolCh /\ poolPos' = poolPos + 1 /\ poolPc' = "scan")
          /\ PoolWellFormed(line) =>
                (poolCh' = poolCh \o FourSamples(line) /\ poolPos' = poolPos + 1 /\ poolPc' = "scan")
      ]_vars

\* C23: no line of pool_stats makes the scan crash.
C23_PoolNeverPanics == poolPc # "panic"

\* The flag of collector.nfsd.skip that covers a label of the server source
SkippedLabel(c, label) ==
    \/ (label = L_proc2 /\ c.V2)
    \/ (label = L_proc3 /\ c.V3)
    \/ (label = L_proc4 /\ c.V4)
    \/ (label = L_proc4ops /\ c.V4ops)

\* The descriptors of the groups the skip list turns off
SkippedDescs(c) ==
    (IF c.V2 THEN {"nfsV2callDesc"} ELSE {}) \cup (IF c.V3 THEN {"nfsV3callDesc"} ELSE {})
        \cup (IF c.V4 THEN {"nfsV4callDesc"} ELSE {}) \cup (IF c.V4ops THEN {"nfsV4opDesc"} ELSE {})

\* Line k of the server source is one the parser rejects
RejectedLine(k) == LineOutcome("server", ZeroNfsdStats, input[k]).next = "return"

\* C24: in an Update of the nfsd collector whose source is opened and read
\* without error, the lines of the groups named in the skip list are not
\* decoded: when every line the parser rejects belongs to a skipped group
\* the collection does not fail, and no sample of a skipped group is exposed.
C24_SkipTurnsOffParsing ==
    (side = "server" /\ openErr = "" /\ ~scanErr /\ updatePc # "idle") =>
        /\ (\A k \in 1..Len(input) : RejectedLine(k) => SkippedLabel(skip, Fields(input[k])[1]))
              => updatePc # "failed"
        /\ \A k \in 1..Len(ch) : ch[k].desc \notin SkippedDescs(skip)

\* C25: when the Update of the pressure collector has returned an error
\* (the source of some resource could not be read or parsed), it has put no
\* sample of any resource on the channel.
C25_PressureAllOrNothing ==
    (pressureRet \in {"ErrNoData", "failed"}) => pressureCh = <<>>

\* C29: an Update of the nfsd collector that completes on a decoded
\* proc4ops record sends for it one sample per named operation, from the
\* one at the declared count down to Access, and no sample for Unused0,
\* Unused1 or Unused2.
C29_Proc4opsFromAccess ==
    (CallTableParsed /\ side = "server" /\ Fields(input[1])[1] = L_proc4ops /\ updatePc = "done") =>
        LET ops == SamplesOf("nfsV4opDesc")
            rec == ret.snapshot[1].V4ops
        IN  /\ \A k \in 1..Len(ch) : ch[k].name \notin {"Unused0", "Unused1", "Unused2"}
            /\ Len(ops) = (IF rec.Fields >= 4 THEN rec.Fields - 3 ELSE 0)
            /\ \A k \in 1..Len(ops) :
                  ops[k] = Sample("nfsV4opDesc", V4opsFields[rec.Fields - k + 2],
                                  rec[V4opsFields[rec.Fields - k + 2]])

\* The merge of pass p follows a merge of a snapshot with the same CPUs.
AfterCycle(p) == Merged(p) /\ SameCount(p) /\ Len(lastIdle) = Len(newStats[p])

\* The idle value of CPU i observed by pass p is below the one observed in
\* the cycle before, by less than jumpBackSeconds.
SlowDecline(p, i) ==
    /\ newStats[p][i].Idle < lastIdle[i]
    /\ lastIdle[i] - newStats[p][i].Idle < jumpBackSeconds

\* C28: in a cycle whose observed idle value of a CPU is lower than the one
\* observed in the cycle before by less than jumpBackSeconds, the CPU is
\* reset (every field becomes the observed value) exactly when the observed
\* idle value is at least jumpBackSeconds below the retained one; otherwise
\* the retained idle value is kept and no field falls.
C28_ResetAgainstRetained ==
    \A p \in Passes : AfterCycle(p) =>
        \A i \in 1..Len(cpuStats) : SlowDecline(p, i) =>
            IF prevStats[p][i].Idle - newStats[p][i].Idle >= jumpBackSeconds
            THEN \A f \in CPUStatFields : cpuStats[i][f] = Observed(newStats[p][i], f)
            ELSE /\ cpuStats[i].Idle = prevStats[p][i].Idle
                 /\ \A f \in CPUStatFields : cpuStats[i][f] >= prevStats[p][i][f]

\* C28 witness: the observed idle value fell by less than jumpBackSeconds
\* against the cycle before, and the CPU was reset because the retained idle
\* value was jumpBackSeconds above the observed one; in the same merge
\* another CPU declined as slowly and kept its retained idle value.
C28_Witness ==
    \E p \in Passes : AfterCycle(p) /\
        \E i, j \in 1..Len(cpuStats) :
            /\ SlowDecline(p, i)
            /\ prevStats[p][i].Idle - newStats[p][i].Idle >= jumpBackSeconds
            /\ cpuStats[i].Idle = newStats[p][i].Idle
            /\ SlowDecline(p, j)
            /\ prevStats[p][j].Idle > lastIdle[j]
            /\ prevStats[p][j].Idle - newStats[p][j].Idle < jumpBackSeconds
            /\ cpuStats[j].Idle = prevStats[p][j].Idle

\* C27 as stated: the table a pass exposes is the table its own merge
\* produced, so every sample it has sent is an entry of that table.
C27_ExposesOwnMerge ==
    \A p \in Passes : (pc[p] = "expose") =>
        /\ cpuStats = mergedTable[p]
        /\ \A k \in 1..Len(sent[p]) : sent[p][k] = Samples(mergedTable[p][k], enableCPUGuest)

\* C27 amended: the table a pass exposes is the table left by the merge that
\* unlocked last, a complete merge of this pass or of another one; it is
\* the pass's own table when no other merge came in between.
C27_ExposesLastMerge ==
    \A p \in Passes : (pc[p] = "expose") =>
        /\ lastMerged.by \in Passes
        /\ cpuStats = lastMerged.table
        /\ Len(sent[p]) <= Len(lastMerged.table)
        /\ \A k \in 1..Len(sent[p]) : sent[p][k] = Samples(lastMerged.table[k], enableCPUGuest)
        /\ (lastMerged.by = p) => (cpuStats = mergedTable[p])

\* C27 witness: a pass has run its exposition loop to the end on a table of
\* another pass's merge, and what it sent for the first CPU differs from
\* what its own merge had left.
C27_Witness ==
    \E p \in Passes :
        /\ pc[p] = "expose"
        /\ idx[p] > Len(cpuStats)
        /\ lastMerged.by # p
        /\ Len(mergedTable[p]) = Len(cpuStats)
        /\ sent[p][1] # Samples(mergedTable[p][1], enableCPUGuest)
        /\ sent[p][1] = Samples(lastMerged.table[1], enableCPUGuest)

\* C26: with concurrent passes and kernel counters that never fall, no
\* step lowers a field of the retained table, and no merge step finds the
\* retained idle value of a CPU jumpBackSeconds or more above the observed
\* one (no reset is triggered).
C26_NoResetWhenKernelMonotone ==
    [][ /\ (Len(cpuStats') = Len(cpuStats)) =>
              \A i \in 1..Len(cpuStats) : \A f \in CPUStatFields :
                  cpuStats'[i][f] >= cpuStats[i][f]
        /\ \A p \in Passes : (pc[p] = "merge" /\ idx'[p] = idx[p] + 1) =>
              ~IdleJumpedBack(cpuStats[idx[p]], newStats[p][idx[p]]) ]_vars

\* The positions of a pass in program order: Stat, Lock, merge loop, Unlock,
\* Lock, exposition loop, Unlock.
PassOrder ==
    { <<"idle", "mergeLock">>, <<"mergeLock", "merge">>, <<"merge", "merged">>,
      <<"merged", "exposeLock">>, <<"exposeLock", "expose">>, <<"expose", "idle">> }

\* C30: a pass moves through its positions in program order, so it locks
\* twice in a cycle; it locks only a free mutex (it does not hold it
\* already), each unlock frees a held mutex, the mutex is free whenever no
\* pass is between a Lock and its Unlock, and under fair scheduling every
\* pass that has started returns.
C30_LocksTwiceAndCompletes ==
    /\ [][ \A p \in Passes : (pc'[p] # pc[p]) =>
              /\ <<pc[p], pc'[p]>> \in PassOrder
              /\ (pc[p] \in {"mergeLock", "exposeLock"}) =>
                    (~InCriticalSection(p) /\ ~cpuStatsMutex /\ cpuStatsMutex')
              /\ (pc[p] \in {"merged", "expose"}) => (cpuStatsMutex /\ ~cpuStatsMutex') ]_vars
    /\ []((\A p \in Passes : ~InCriticalSection(p)) => ~cpuStatsMutex)
    /\ \A p \in Passes : (pc[p] # "idle") ~> (pc[p] = "idle")

\* C30 witness: every pass has returned with its samples sent, the mutex is
\* free, and one pass exposed the table another pass's merge had left.
C30_Witness ==
    /\ ~cpuStatsMutex
    /\ \A p \in Passes : pc[p] = "idle" /\ Len(sent[p]) = Len(cpuStats) /\ Len(sent[p]) > 0
    /\ \E p \in Passes :
          /\ lastMerged.by # p
          /\ sent[p][1] = Samples(lastMerged.table[1], enableCPUGuest)

====
